---- MODULE Spec2Model ----
(***************************************************************************)
(* VB6-to-C# batch conversion pipeline (src/main.py, class VB6Converter):  *)
(*   - chunk_large_file            the line-oriented segmenter             *)
(*   - call_azure_openai           the request driver (retry loop)         *)
(*   - convert_chunks_sequential   the chunk orchestrator                  *)
(*   - convert_bas_file / convert_cls_file   the unit converters           *)
(* Text is a sequence of one-character strings, so that substring tests,   *)
(* lengths, joins and splits are computed, not assumed.                    *)
(***************************************************************************)
EXTENDS Integers, Sequences, FiniteSets, TLC

VARIABLES
    \* ---- chunk_large_file -------------------------------------------------
    file_type,        \* "cls" or "bas"
    max_chunk_size,   \* the size budget
    lines,            \* content.splitlines()
    pos,              \* index of the next line of the for loop
    chunks,           \* the chunks appended so far (joined texts)
    current_chunk,    \* the lines of the chunk being built
    current_size,     \* the running size
    in_method,        \* inside a callable body
    in_struct,        \* inside a Type block (cls only)
    boundary,         \* history: what the last step appended to chunks, and the flags then
    seg_pc,           \* "idle", "scan" or "done"
    \* ---- convert_bas_file / convert_cls_file and what they call -----------
    unit_kind,        \* "bas" (convert_bas_file) or "cls" (convert_cls_file)
    content,          \* the unit's text: its length and whether it is blank
    n_chunks,         \* len(chunks) as returned by chunk_large_file (0: not chunked)
    chunk_index,      \* convert_chunks_sequential's loop index i
    combined,         \* the recombined (or un-chunked) result before validation
    pc,               \* where the unit conversion stands
    retries,          \* call_azure_openai's retry budget
    attempt,          \* call_azure_openai's loop variable
    outcome,          \* what the backend did on the latest attempt
    previous_context, \* convert_chunks_sequential's chained context
    results,          \* convert_chunks_sequential's result list
    result,           \* the unit conversion's return value
    prompts,          \* history: the chunk prompts built so far
    unit_prompts,     \* history: the whole-unit and combine prompts sent so far
    returns,          \* history: what each call_azure_openai call returned
    invocations,      \* history: backend invocations of the current call
    raised_only,      \* history: every backend invocation so far raised
    all_accepted,     \* history: the driver accepted every backend invocation so far
    \* ---- merge_class_chunks_locally, on text -------------------------------
    class_chunks,     \* each chunk's "ClassChunk.cs" text
    class_name,       \* the name of the class to synthesize
    namespace,        \* the name of the namespace to synthesize
    has_disposable,   \* whether the synthesized class is to be IDisposable
    bodies,           \* each chunk's `body` after the using/namespace/class headers are removed
    chunk_bodies,     \* the stripped bodies
    merged_body,      \* the joined text, then with duplicates removed
    types,            \* the declarations re.findall found, in order
    dup,              \* position of the loop `for dup in types`
    full_code,        \* the text returned under "Class.cs"
    merge_pc,         \* "idle", "headers", "strip", "join", "dedupe", "wrap" or "done"
    \* ---- extract_json_from_response, on text -------------------------------
    response_content, \* the backend's text
    cleaned,          \* the text after the fence markers are removed
    recovered,        \* what extract_json_from_response returns
    rec_input,        \* history: the mapping and the wrapping the text was made from
    stages,           \* history: the recovery stages run so far, in order
    rec_pc,           \* "idle", "clean", "parse", "scan", "search" or "done"
    \* ---- convert_vb6_project: the loop over the files and the main-file pass ----
    batch,            \* the files input_dir.rglob("*") yields, in its order
    batch_index,      \* position of the loop over them
    successful_files, \* names of the converted files
    failed_files,     \* entries "<name> (<note>)" of the files that failed
    large_files,      \* names of the files of more than LargeFile characters
    missing_mains,    \* the expected main files not converted by the loop
    mains_index,      \* position of the loop over missing_mains
    conversions,      \* history: each converter call made, and what it returned
    batch_pc          \* "idle", "files", "mains", "done" or "failed" (HTTP 500)

seg_vars == <<file_type, max_chunk_size, lines, pos, chunks, current_chunk,
              current_size, in_method, in_struct, boundary, seg_pc>>

unit_vars == <<unit_kind, content, n_chunks, chunk_index, combined, pc, retries, attempt, outcome,
               previous_context, results, result, prompts, unit_prompts, returns,
               invocations, raised_only, all_accepted>>

merge_vars == <<class_chunks, class_name, namespace, has_disposable, bodies, chunk_bodies,
                merged_body, types, dup, full_code, merge_pc>>

rec_vars == <<response_content, cleaned, recovered, rec_input, stages, rec_pc>>

batch_vars == <<batch, batch_index, successful_files, failed_files, large_files, missing_mains,
                mains_index, conversions, batch_pc>>

vars == <<seg_vars, unit_vars, merge_vars, rec_vars, batch_vars>>

(***************************************************************************)
(* Text helpers                                                            *)
(***************************************************************************)
NL == "\n"

\* Python: needle in hay
IsSubstr(needle, hay) ==
    \E k \in 0..(Len(hay) - Len(needle)) :
        \A j \in 1..Len(needle) : hay[k + j] = needle[j]

\* Python: any(keyword in line for keyword in keywords)
ContainsAny(line, keywords) == \E kw \in keywords : IsSubstr(kw, line)

IsSpace(c) == c \in {" ", "\t"}

RECURSIVE LStrip(_)
LStrip(s) == IF s # <<>> /\ IsSpace(Head(s)) THEN LStrip(Tail(s)) ELSE s

RECURSIVE RStrip(_)
RStrip(s) ==
    IF s # <<>> /\ IsSpace(s[Len(s)]) THEN RStrip(SubSeq(s, 1, Len(s) - 1)) ELSE s

\* Python: line.strip()
Strip(s) == RStrip(LStrip(s))

\* Python: "\n".join(parts)
RECURSIVE JoinNL(_)
JoinNL(parts) ==
    IF parts = <<>> THEN <<>>
    ELSE IF Len(parts) = 1 THEN parts[1]
    ELSE parts[1] \o <<NL>> \o JoinNL(Tail(parts))

\* Python: text.split("\n"), the inverse of the join for lines without "\n"
RECURSIVE SplitNL(_)
SplitNL(text) ==
    IF \A k \in 1..Len(text) : text[k] # NL THEN <<text>>
    ELSE LET k == CHOOSE k \in 1..Len(text) :
                      text[k] = NL /\ \A j \in 1..(k - 1) : text[j] # NL
         IN  <<SubSeq(text, 1, k - 1)>> \o SplitNL(SubSeq(text, k + 1, Len(text)))

RECURSIVE Flatten(_)
Flatten(seqs) == IF seqs = <<>> THEN <<>> ELSE Head(seqs) \o Flatten(Tail(seqs))

RECURSIVE SumLen(_)
SumLen(ls) == IF ls = <<>> THEN 0 ELSE Len(Head(ls)) + SumLen(Tail(ls))

(***************************************************************************)
(* Keyword vocabularies of chunk_large_file                                *)
(***************************************************************************)
K_PublicSub == <<"P", "u", "b", "l", "i", "c", " ", "S", "u", "b">>
K_PrivateSub == <<"P", "r", "i", "v", "a", "t", "e", " ", "S", "u", "b">>
K_PublicFunction == <<"P", "u", "b", "l", "i", "c", " ", "F", "u", "n", "c", "t", "i", "o", "n">>
K_PrivateFunction == <<"P", "r", "i", "v", "a", "t", "e", " ", "F", "u", "n", "c", "t", "i", "o", "n">>
K_PropertyGet == <<"P", "r", "o", "p", "e", "r", "t", "y", " ", "G", "e", "t">>
K_PropertySet == <<"P", "r", "o", "p", "e", "r", "t", "y", " ", "S", "e", "t">>
K_PropertyLet == <<"P", "r", "o", "p", "e", "r", "t", "y", " ", "L", "e", "t">>
K_EndSub == <<"E", "n", "d", " ", "S", "u", "b">>
K_EndFunction == <<"E", "n", "d", " ", "F", "u", "n", "c", "t", "i", "o", "n">>
K_EndProperty == <<"E", "n", "d", " ", "P", "r", "o", "p", "e", "r", "t", "y">>
K_Type == <<"T", "y", "p", "e", " ">>
K_PrivateType == <<"P", "r", "i", "v", "a", "t", "e", " ", "T", "y", "p", "e">>
K_PublicType == <<"P", "u", "b", "l", "i", "c", " ", "T", "y", "p", "e">>
K_EndType == <<"E", "n", "d", " ", "T", "y", "p", "e">>
K_DeclareFunction == <<"D", "e", "c", "l", "a", "r", "e", " ", "F", "u", "n", "c", "t", "i", "o", "n">>
K_DeclareSub == <<"D", "e", "c", "l", "a", "r", "e", " ", "S", "u", "b">>
K_Sub == <<"S", "u", "b">>
K_Function == <<"F", "u", "n", "c", "t", "i", "o", "n">>

cls_method_start_keywords ==
    {K_PublicSub, K_PrivateSub, K_PublicFunction, K_PrivateFunction,
     K_PropertyGet, K_PropertySet, K_PropertyLet}
cls_method_end_keywords == {K_EndSub, K_EndFunction, K_EndProperty}
struct_start_keywords == {K_Type, K_PrivateType, K_PublicType}
struct_end_keywords == {K_EndType}
declare_keywords == {K_DeclareFunction, K_DeclareSub}
bas_method_start_keywords ==
    {K_PublicSub, K_PrivateSub, K_PublicFunction, K_PrivateFunction, K_Sub, K_Function}
bas_method_end_keywords == {K_EndSub, K_EndFunction}

(***************************************************************************)
(* Inputs of the segmenter: short VB6 lines, and budgets small enough      *)
(* that boundaries happen within a few lines.                              *)
(***************************************************************************)
\* ""
L_Blank == <<>>
\* " x = 1"
L_Stmt == <<" ", "x", " ", "=", " ", "1">>
\* "Public Sub A()"
L_PublicSub == <<"P", "u", "b", "l", "i", "c", " ", "S", "u", "b", " ", "A", "(", ")">>
\* "End Sub"
L_EndSub == <<"E", "n", "d", " ", "S", "u", "b">>
\* "Private Type T"
L_PrivateType == <<"P", "r", "i", "v", "a", "t", "e", " ", "T", "y", "p", "e", " ", "T">>
\* "End Type"
L_EndType == <<"E", "n", "d", " ", "T", "y", "p", "e">>
\* "Declare Sub F"
L_Declare == <<"D", "e", "c", "l", "a", "r", "e", " ", "S", "u", "b", " ", "F">>

\* "Declare Sub xType y"
L_DeclareType == <<"D", "e", "c", "l", "a", "r", "e", " ", "S", "u", "b", " ", "x", "T", "y", "p", "e", " ", "y">>

LineVocabulary ==
    {L_Blank, L_Stmt, L_PublicSub, L_EndSub, L_PrivateType, L_EndType, L_Declare, L_DeclareType}

MaxLines == 4
ChunkSizes == {12, 20, 28}
FileTypes == {"cls", "bas"}

Inputs == UNION {[1..n -> LineVocabulary] : n \in 0..MaxLines}

(***************************************************************************)
(* chunk_large_file: one loop iteration                                    *)
(* The loop state is a record of the function's locals; `boundary` is a    *)
(* history field: "cut" (a chunk closed before the line), "flush" (closed  *)
(* after a close line), "none", with `open` the body flags at that moment. *)
(***************************************************************************)
NoBoundary == [kind |-> "none", open |-> FALSE]

\* A slip of CutBefore: the new chunk starts empty, losing the line that forced the cut.
CutBeforeDropsLine(s, line) ==
    [s EXCEPT !.chunks = Append(@, JoinNL(s.current_chunk)),
              !.current_chunk = <<>>,
              !.current_size = 0,
              !.boundary = [kind |-> "cut", open |-> s.in_method \/ s.in_struct]]

\* chunks.append("\n".join(current_chunk)); current_chunk = [line]; current_size = len(line)
CutBefore(s, line) ==
    [s EXCEPT !.chunks = Append(@, JoinNL(s.current_chunk)),
              !.current_chunk = <<line>>,
              !.current_size = Len(line),
              !.boundary = [kind |-> "cut", open |-> s.in_method \/ s.in_struct]]

\* A slip of AppendLine: the separator of the join is counted with the line
AppendLineCountsSeparator(s, line) ==
    [s EXCEPT !.current_chunk = Append(@, line),
              !.current_size = @ + Len(line) + 1]

\* current_chunk.append(line); current_size += len(line)
AppendLine(s, line) ==
    [s EXCEPT !.current_chunk = Append(@, line),
              !.current_size = @ + Len(line)]

\* current_size > max_chunk_size * 0.8
OverEighty(size, max) == 10 * size > 8 * max

\* if current_size > max_chunk_size * 0.8: chunks.append(...); current_chunk = []; current_size = 0
FlushIfLarge(s, max) ==
    IF OverEighty(s.current_size, max)
    THEN [s EXCEPT !.chunks = Append(@, JoinNL(s.current_chunk)),
                   !.current_chunk = <<>>,
                   !.current_size = 0,
                   !.boundary = [kind |-> "flush", open |-> s.in_method \/ s.in_struct]]
    ELSE s

\* A slip of WouldExceed: the size is tested before the line is counted
WouldExceedBeforeLine(s, line, max) ==
    s.current_size > max /\ s.current_chunk # <<>>

\* current_size + len(line) > max_chunk_size and current_chunk
WouldExceed(s, line, max) ==
    s.current_size + Len(line) > max /\ s.current_chunk # <<>>

ClsLine(s0, line, max) ==
    LET s == [s0 EXCEPT !.boundary = NoBoundary] IN
    IF ContainsAny(line, struct_start_keywords) THEN
        IF WouldExceed(s, line, max) /\ ~s.in_method
        THEN [CutBefore(s, line) EXCEPT !.in_struct = TRUE]
        ELSE [AppendLine(s, line) EXCEPT !.in_struct = TRUE]
    ELSE IF ContainsAny(line, struct_end_keywords) THEN
        FlushIfLarge([AppendLine(s, line) EXCEPT !.in_struct = FALSE], max)
    ELSE IF ContainsAny(line, declare_keywords) THEN
        IF WouldExceed(s, line, max) /\ ~s.in_method /\ ~s.in_struct
        THEN CutBefore(s, line)
        ELSE AppendLine(s, line)
    ELSE IF ContainsAny(line, cls_method_start_keywords) THEN
        IF WouldExceed(s, line, max) /\ ~s.in_struct
        THEN [CutBefore(s, line) EXCEPT !.in_method = TRUE]
        ELSE [AppendLine(s, line) EXCEPT !.in_method = TRUE]
    ELSE IF ContainsAny(line, cls_method_end_keywords) THEN
        FlushIfLarge([AppendLine(s, line) EXCEPT !.in_method = FALSE], max)
    ELSE
        IF WouldExceed(s, line, max) /\ ~s.in_method /\ ~s.in_struct
        THEN CutBefore(s, line)
        ELSE AppendLine(s, line)

BasLine(s0, line, max) ==
    LET s == [s0 EXCEPT !.boundary = NoBoundary]
        line_stripped == Strip(line)
    IN
    IF ContainsAny(line_stripped, declare_keywords) THEN
        IF WouldExceed(s, line, max) /\ ~s.in_method
        THEN CutBefore(s, line)
        ELSE AppendLine(s, line)
    ELSE IF ContainsAny(line_stripped, bas_method_start_keywords) THEN
        IF WouldExceed(s, line, max)
        THEN [CutBefore(s, line) EXCEPT !.in_method = TRUE]
        ELSE [AppendLine(s, line) EXCEPT !.in_method = TRUE]
    ELSE IF ContainsAny(line_stripped, bas_method_end_keywords) THEN
        FlushIfLarge([AppendLine(s, line) EXCEPT !.in_method = FALSE], max)
    ELSE
        IF WouldExceed(s, line, max) /\ ~s.in_method
        THEN CutBefore(s, line)
        ELSE AppendLine(s, line)

SegLocals ==
    [chunks |-> chunks, current_chunk |-> current_chunk, current_size |-> current_size,
     in_method |-> in_method, in_struct |-> in_struct, boundary |-> boundary]

SegStart ==
    /\ file_type \in FileTypes
    /\ max_chunk_size \in ChunkSizes
    /\ lines \in Inputs
    /\ pos = 1
    /\ chunks = <<>>
    /\ current_chunk = <<>>
    /\ current_size = 0
    /\ in_method = FALSE
    /\ in_struct = FALSE
    /\ boundary = NoBoundary
    /\ seg_pc = "scan"

SegIdle ==
    /\ file_type = "bas"
    /\ max_chunk_size = 0
    /\ lines = <<>>
    /\ pos = 1
    /\ chunks = <<>>
    /\ current_chunk = <<>>
    /\ current_size = 0
    /\ in_method = FALSE
    /\ in_struct = FALSE
    /\ boundary = NoBoundary
    /\ seg_pc = "idle"

\* for line in lines: ...
ScanLine ==
    /\ seg_pc = "scan"
    /\ pos <= Len(lines)
    /\ LET s == IF file_type = "cls"
                THEN ClsLine(SegLocals, lines[pos], max_chunk_size)
                ELSE BasLine(SegLocals, lines[pos], max_chunk_size)
       IN  /\ chunks' = s.chunks
           /\ current_chunk' = s.current_chunk
           /\ current_size' = s.current_size
           /\ in_method' = s.in_method
           /\ in_struct' = s.in_struct
           /\ boundary' = s.boundary
    /\ pos' = pos + 1
    /\ UNCHANGED <<file_type, max_chunk_size, lines, seg_pc>>
    /\ UNCHANGED <<unit_vars, merge_vars, rec_vars, batch_vars>>

\* A slip of FinalChunks: the last chunk is appended even when it has no line
FinalChunksAlways(cs, last) == Append(cs, JoinNL(last))

\* if current_chunk: chunks.append("\n".join(current_chunk))
FinalChunks(cs, last) == IF last # <<>> THEN Append(cs, JoinNL(last)) ELSE cs

\* if current_chunk: chunks.append("\n".join(current_chunk)); return chunks
FinishScan ==
    /\ seg_pc = "scan"
    /\ pos > Len(lines)
    /\ chunks' = FinalChunks(chunks, current_chunk)
    /\ boundary' = [kind |-> IF current_chunk # <<>> THEN "end" ELSE "none",
                    open |-> in_method \/ in_struct]
    /\ seg_pc' = "done"
    /\ UNCHANGED <<file_type, max_chunk_size, lines, pos, current_chunk, current_size,
                   in_method, in_struct>>
    /\ UNCHANGED <<unit_vars, merge_vars, rec_vars, batch_vars>>

SegNext == ScanLine \/ FinishScan

(***************************************************************************)
(* Values exchanged with the backend.                                      *)
(* A mapping (a Python dict with string keys) is a function from keys to   *)
(* values.  A C# text is kept by what the pipeline's regular expressions   *)
(* see of it:                                                              *)
(*   blank   not code.strip()                                              *)
(*   empty   re.search(r'\w+\s*\([^)]*\)\s*\{\s*\}', code)                 *)
(*   marked  every such empty body is followed by the TODO marker comment  *)
(*   body    re.search(r'\{\s*[^}]+\s*\}', code)                           *)
(***************************************************************************)
Str(text) == [t |-> "str", s |-> text]
EmptyStr == Str("")

Code(blank, empty, body) ==
    [t |-> "code", blank |-> blank, empty |-> empty, marked |-> FALSE, body |-> body]
GoodCode == Code(FALSE, FALSE, TRUE)       \* class C { void F() { x(); } }
EmptyMethod == Code(FALSE, TRUE, FALSE)    \* void F() {}
EmptyInClass == Code(FALSE, TRUE, TRUE)    \* class C { void F() {} }
NoBody == Code(FALSE, FALSE, FALSE)        \* int x;
BlankCode == Code(TRUE, FALSE, FALSE)      \* ""
NumberValue == [t |-> "number"]            \* a JSON number where a text is expected

EmptyMapping == [k \in {} |-> EmptyStr]

\* expected_keys of call_azure_openai
ExpectedKeys ==
    {"Class.cs", "Constants.cs", "ModuleService.cs", "IModuleService.cs",
     "Chunk.cs", "ClassChunk.cs"}

\* key.endswith(".cs"), for the keys the backend uses here
EndsWithCs(key) == key \in ExpectedKeys \cup {"Other.cs"}

\* "error" in m
HasError(m) == "error" \in DOMAIN m

\* {"error": reason}
ErrorResult(reason) == [error |-> reason]
ApiCallFailed(e) == [t |-> "reason", kind |-> "API call failed", detail |-> e]
EmptyResponse == [t |-> "reason", kind |-> "Empty response from Azure OpenAI API"]
InvalidJson(preview) == [t |-> "reason", kind |-> "Invalid JSON response", detail |-> preview]
MissingKeys(found) == [t |-> "reason", kind |-> "Missing expected keys", detail |-> found]
ExhaustedRetries == [t |-> "reason", kind |-> "Exhausted all retry attempts"]
EmptyContent == [t |-> "reason", kind |-> "Empty content"]
AllChunksFailed == [t |-> "reason", kind |-> "All chunks failed"]

(***************************************************************************)
(* What the backend may do on one invocation                               *)
(***************************************************************************)
Raise(e) == [kind |-> "raise", e |-> e]
EmptyText == [kind |-> "empty"]
Garbage(text) == [kind |-> "garbage", text |-> text]   \* no recovery stage parses it
Scalar == [kind |-> "scalar"]                          \* valid JSON, not an object
Reply(m) == [kind |-> "reply", m |-> m]                \* text that recovers to mapping m
JsonList(items) == [kind |-> "list", items |-> items]  \* valid JSON: a list of strings
NoOutcome == [kind |-> "none"]

\* Replies to a chunk prompt: a chunk with a summary, a chunk of the other kind's
\* key with another summary, a chunk with an empty-bodied method and no summary,
\* a class chunk with other code and no summary.
ChunkReplies ==
    {("Chunk.cs" :> GoodCode) @@ ("ContextSummary" :> Str("s1")),
     ("ClassChunk.cs" :> GoodCode) @@ ("ContextSummary" :> Str("s2")),
     "Chunk.cs" :> EmptyMethod,
     "ClassChunk.cs" :> NoBody}

\* Replies to a whole-unit or combine prompt
UnitReplies ==
    {("Constants.cs" :> GoodCode) @@ ("ModuleService.cs" :> GoodCode)
         @@ ("IModuleService.cs" :> GoodCode),
     "ModuleService.cs" :> NoBody,
     ("Class.cs" :> GoodCode) @@ ("Other.cs" :> EmptyInClass)}

\* Replies the driver rejects
BadReplies ==
    {"Notes" :> Str("n"),
     ("error" :> Str("refused")) @@ ("Class.cs" :> GoodCode),
     "Class.cs" :> NumberValue}

Failures == {Raise("timeout"), EmptyText, Garbage("g1"), Reply("Notes" :> Str("n"))}

ChunkOutcomes == Failures \cup {Reply(m) : m \in ChunkReplies}

\* Lists the recoverer hands back as they are: one holding the item "error", one
\* holding an expected key
ListReplies == {JsonList({"error"}), JsonList({"Class.cs"})}

UnitOutcomes ==
    Failures \cup {Scalar} \cup ListReplies
        \cup {Reply(m) : m \in BadReplies \cup UnitReplies}

(***************************************************************************)
(* extract_json_from_response, by its result on the backend's text         *)
(***************************************************************************)
\* A list is kept by what `x in value` answers: the domain holds the list's items,
\* and the item ListMark tells it from a mapping.
ListMark == "[list]"
ListValue(items) == [x \in items \cup {ListMark} |-> NumberValue]
IsMapping(v) == ListMark \notin DOMAIN v

\* return json.loads(cleaned): whatever JSON value the text holds
extract_json_from_response(o) ==
    IF o.kind = "garbage" THEN ErrorResult(InvalidJson(o.text))
    ELSE IF o.kind = "list" THEN ListValue(o.items)
    ELSE o.m

(***************************************************************************)
(* call_azure_openai: one iteration of `for attempt in range(retries + 1)` *)
(* The result is either "retry" (continue with the next attempt) or the    *)
(* value returned.                                                         *)
(***************************************************************************)
RetryStep == [retry |-> TRUE]
ReturnStep(v) == [retry |-> FALSE, value |-> v]

\* A slip of RetryOrReturn: one attempt too few
RetryOrReturnOffByOne(n, budget, v) ==
    IF n + 1 < budget THEN RetryStep ELSE ReturnStep(v)

\* A slip of RetryOrReturn: the loop's fall-through error instead of the attempt's own
RetryOrReturnGenericError(n, budget, v) ==
    IF n < budget THEN RetryStep ELSE ReturnStep(ErrorResult(ExhaustedRetries))

\* A slip of RetryOrReturn: one attempt too many
RetryOrReturnOneMore(n, budget, v) ==
    IF n <= budget THEN RetryStep ELSE ReturnStep(v)

\* if attempt < retries: continue;  return <error>
RetryOrReturn(n, budget, v) ==
    IF n < budget THEN RetryStep ELSE ReturnStep(v)

\* re.sub(r'(\w+\s*\([^)]*\)\s*\{\s*\})', r'\1 // TODO: Implement body from original VB6', code)
Annotate(code) == [code EXCEPT !.marked = code.empty]

\* for key, code in parsed_response.items(): ... (the `continue` of the empty-method
\* branch continues this inner loop, so with attempts left the value stays as it is)
ScanEmptyMethods(parsed, n, budget) ==
    [key \in DOMAIN parsed |->
        IF EndsWithCs(key) /\ parsed[key].empty
        THEN IF n < budget THEN parsed[key] ELSE Annotate(parsed[key])
        ELSE parsed[key]]

\* A slip of HasValidKey: any non-empty mapping passes
HasValidKeyAnyKey(parsed) == DOMAIN parsed # {}

\* has_valid_key = any(key in parsed_response for key in expected_keys)
HasValidKey(parsed) == DOMAIN parsed \cap ExpectedKeys # {}

CallStep(n, budget, o) ==
    IF o.kind = "raise" THEN
        RetryOrReturn(n, budget, ErrorResult(ApiCallFailed(o.e)))
    ELSE IF o.kind = "empty" THEN
        RetryOrReturn(n, budget, ErrorResult(EmptyResponse))
    ELSE IF o.kind = "scalar" THEN
        \* `"error" in parsed_response` raises TypeError, caught by `except Exception`
        RetryOrReturn(n, budget, ErrorResult(ApiCallFailed("TypeError")))
    ELSE LET parsed_response == extract_json_from_response(o) IN
        IF HasError(parsed_response) THEN
            RetryOrReturn(n, budget, parsed_response)
        ELSE IF ~IsMapping(parsed_response) THEN
            \* .keys() or .items() of a list raises AttributeError, caught by
            \* `except Exception`
            RetryOrReturn(n, budget, ErrorResult(ApiCallFailed("AttributeError")))
        ELSE IF ~HasValidKey(parsed_response) THEN
            RetryOrReturn(n, budget, ErrorResult(MissingKeys(DOMAIN parsed_response)))
        ELSE IF \E key \in DOMAIN parsed_response :
                    EndsWithCs(key) /\ parsed_response[key].t # "code" THEN
            \* re.search on a value that is no text raises TypeError
            RetryOrReturn(n, budget, ErrorResult(ApiCallFailed("TypeError")))
        ELSE ReturnStep(ScanEmptyMethods(parsed_response, n, budget))

(***************************************************************************)
(* convert_chunks_sequential                                               *)
(***************************************************************************)
\* A slip of ChunkPrompt: the "previous_context": "" of prompt_vars_fn is left in place
ChunkPromptIgnoresContext(i, total, context) ==
    [chunk_number |-> i + 1, total_chunks |-> total, previous_context |-> EmptyStr,
     vb6_code |-> i + 1]

\* prompt_vars = prompt_vars_fn(i); prompt_vars["previous_context"] = previous_context
ChunkPrompt(i, total, context) ==
    [chunk_number |-> i + 1, total_chunks |-> total, previous_context |-> context,
     vb6_code |-> i + 1]

\* A variant of NextContext: a failed chunk clears the context
NextContextResetOnError(context, response) ==
    IF ~HasError(response)
    THEN IF "ContextSummary" \in DOMAIN response THEN response["ContextSummary"] ELSE EmptyStr
    ELSE EmptyStr

\* A variant of NextContext: a successful chunk without a summary keeps the context
NextContextKeptWithoutSummary(context, response) ==
    IF ~HasError(response) /\ "ContextSummary" \in DOMAIN response
    THEN response["ContextSummary"]
    ELSE context

\* if "error" not in response: previous_context = response.get("ContextSummary", "")
NextContext(context, response) ==
    IF ~HasError(response)
    THEN IF "ContextSummary" \in DOMAIN response THEN response["ContextSummary"] ELSE EmptyStr
    ELSE context

\* A slip of RecordResult: failed chunks are left out of the list
RecordResultSkipsErrors(rs, response) ==
    IF HasError(response) THEN rs ELSE Append(rs, response)

\* results.append(response)
RecordResult(rs, response) == Append(rs, response)

(***************************************************************************)
(* convert_bas_file / convert_cls_file                                     *)
(***************************************************************************)
BasThreshold == 15000
ClsThreshold == 12000
DefaultRetries == 3

\* A slip of Threshold: the two kinds' thresholds exchanged
ThresholdOfOtherKind(kind) == IF kind = "bas" THEN 12000 ELSE 15000

Threshold(kind) == IF kind = "bas" THEN BasThreshold ELSE ClsThreshold

RECURSIVE Keep(_, _)
Keep(sq, keep) ==
    IF sq = <<>> THEN <<>>
    ELSE (IF Head(keep) THEN <<Head(sq)>> ELSE <<>>) \o Keep(Tail(sq), Tail(keep))

\* A variant of GoodParts: the failed chunks stay in the list
GoodPartsUnfiltered(parts) == parts

\* A variant of GoodParts: one failed chunk discards them all
GoodPartsAllOrNothing(parts) ==
    IF \E k \in 1..Len(parts) : HasError(parts[k]) THEN <<>> ELSE parts

\* good_parts = [part for part in parts if part and "error" not in part]
GoodParts(parts) ==
    Keep(parts, [k \in 1..Len(parts) |-> DOMAIN parts[k] # {} /\ ~HasError(parts[k])])

\* chunk.get("ClassChunk.cs", "")
ClassChunkCode(chunk) ==
    IF "ClassChunk.cs" \in DOMAIN chunk THEN chunk["ClassChunk.cs"] ELSE BlankCode

\* merge_class_chunks_locally: {"Class.cs": full_code}; the text is kept as the
\* synthesized namespace/class wrapper around the non-blank chunk bodies.
merge_class_chunks_locally(parts) ==
    LET codes == [k \in 1..Len(parts) |-> ClassChunkCode(parts[k])]
    IN  "Class.cs" :> [t |-> "class",
                       bodies |-> Keep(codes, [k \in 1..Len(codes) |-> ~codes[k].blank])]

\* re.search(r'\{\s*[^}]+\s*\}', code): the synthesized wrapper always has
\* "{\n    public class ..." followed by a closing brace.
HasBodyBlock(code) == IF code.t = "class" THEN TRUE ELSE code.body

\* if "error" not in combined: for file_name, code in combined.items():
\*     if file_name.endswith(".cs") and not re.search(...): return self.call_azure_openai(...)
NeedsFallback(m) ==
    ~HasError(m) /\ \E key \in DOMAIN m : EndsWithCs(key) /\ ~HasBodyBlock(m[key])

MaxChunks == 3
RetryBudgets == {0, DefaultRetries}
\* Unit texts: empty, whitespace only, one character below the kind's threshold,
\* at it, one character above it
ContentLengths(kind) == {0, Threshold(kind) - 1, Threshold(kind), Threshold(kind) + 1}
Contents(kind) ==
    {c \in [len : ContentLengths(kind), blank : BOOLEAN] : c.len = 0 => c.blank}

UnitStart ==
    /\ unit_kind \in {"bas", "cls"}
    /\ content \in Contents(unit_kind)
    /\ retries \in RetryBudgets
    /\ n_chunks = 0
    /\ chunk_index = 0
    /\ combined = EmptyMapping
    /\ pc = "start"
    /\ attempt = 0
    /\ outcome = NoOutcome
    /\ previous_context = EmptyStr
    /\ results = <<>>
    /\ result = EmptyMapping
    /\ prompts = <<>>
    /\ unit_prompts = <<>>
    /\ returns = <<>>
    /\ invocations = 0
    /\ raised_only = TRUE
    /\ all_accepted = TRUE

UnitIdle ==
    /\ unit_kind = "bas"
    /\ content = [len |-> 0, blank |-> TRUE]
    /\ retries = 0
    /\ n_chunks = 0
    /\ chunk_index = 0
    /\ combined = EmptyMapping
    /\ pc = "idle"
    /\ attempt = 0
    /\ outcome = NoOutcome
    /\ previous_context = EmptyStr
    /\ results = <<>>
    /\ result = EmptyMapping
    /\ prompts = <<>>
    /\ unit_prompts = <<>>
    /\ returns = <<>>
    /\ invocations = 0
    /\ raised_only = TRUE
    /\ all_accepted = TRUE

\* self.conversion_prompts['module_bas' / 'class_cls'].format(vb6_code=content, ...)
UnitPrompt(kind, text) ==
    [template |-> IF kind = "bas" THEN "module_bas" ELSE "class_cls",
     vb6_code |-> text, chunks |-> <<>>]

\* The prompt of combine_converted_chunks: the good parts, no VB6 text
NoVb6Code == [len |-> 0, blank |-> TRUE]
CombinePrompt(good_parts) ==
    [template |-> "combine", vb6_code |-> NoVb6Code, chunks |-> good_parts]

\* Entering call_azure_openai
StartCall(next_pc) ==
    /\ pc' = next_pc
    /\ attempt' = 0
    /\ invocations' = 0
    /\ outcome' = NoOutcome

\* Leaving the unit conversion with value v
ReturnUnit(v) ==
    /\ result' = v
    /\ pc' = "done"

\* One backend invocation of the running call: the step taken, and the bookkeeping.
Invoke(o, step) ==
    /\ outcome' = o
    /\ invocations' = invocations + 1
    /\ raised_only' = (raised_only /\ o.kind = "raise")
    /\ all_accepted' = (all_accepted /\ ~step.retry /\ ~HasError(step.value))
    /\ attempt' = IF step.retry THEN attempt + 1 ELSE attempt
    /\ returns' = IF step.retry THEN returns
                  ELSE Append(returns, [call |-> pc, chunk |-> chunk_index + 1,
                                        value |-> step.value])

\* A unit counted as blank only when it has no characters at all
IsBlankOnlyIfEmpty(c) == c.len = 0
\* not content or not content.strip()
IsBlank(c) == c.blank

\* if not content or not content.strip(): return {"error": ...}
RejectEmpty ==
    /\ UNCHANGED <<seg_vars, merge_vars, rec_vars, batch_vars>>
    /\ pc = "start"
    /\ IsBlank(content)
    /\ ReturnUnit(ErrorResult(EmptyContent))
    /\ UNCHANGED <<unit_kind, content, n_chunks, chunk_index, combined, retries, attempt,
                   outcome, previous_context, results, prompts, unit_prompts, returns,
                   invocations, raised_only,
                   all_accepted>>

\* if len(content) > threshold: chunks = self.chunk_large_file(...); results = []; previous_context = ""
BeginChunked ==
    /\ UNCHANGED <<seg_vars, merge_vars, rec_vars, batch_vars>>
    /\ pc = "start"
    /\ ~IsBlank(content)
    /\ content.len > Threshold(unit_kind)
    /\ \E n \in 1..MaxChunks : n_chunks' = n
    /\ chunk_index' = 0
    /\ results' = <<>>
    /\ previous_context' = EmptyStr
    /\ pc' = "chunk_loop"
    /\ UNCHANGED <<unit_kind, content, combined, retries, attempt, outcome, result, prompts,
                   unit_prompts, returns, invocations, raised_only,
                   all_accepted>>

\* else: prompt = template.format(vb6_code=content, ...); converted = self.call_azure_openai(prompt)
BeginSingle ==
    /\ UNCHANGED <<seg_vars, merge_vars, rec_vars, batch_vars>>
    /\ pc = "start"
    /\ ~IsBlank(content)
    /\ content.len <= Threshold(unit_kind)
    /\ unit_prompts' = Append(unit_prompts, UnitPrompt(unit_kind, content))
    /\ StartCall("single_call")
    /\ UNCHANGED <<unit_kind, content, n_chunks, chunk_index, combined, retries,
                   previous_context, results, result, prompts, returns, raised_only,
                   all_accepted>>

\* for i, chunk in enumerate(chunks): build the prompt and call the driver
BuildChunkPrompt ==
    /\ UNCHANGED <<seg_vars, merge_vars, rec_vars, batch_vars>>
    /\ pc = "chunk_loop"
    /\ chunk_index < n_chunks
    /\ prompts' = Append(prompts, ChunkPrompt(chunk_index, n_chunks, previous_context))
    /\ StartCall("chunk_call")
    /\ UNCHANGED <<unit_kind, content, n_chunks, chunk_index, combined, retries,
                   previous_context, results, result, unit_prompts, returns, raised_only,
                   all_accepted>>

\* response = self.call_azure_openai(prompt, ...), attempt by attempt; on return
\* the context is chained and the response appended.
ChunkAttempt ==
    /\ UNCHANGED <<seg_vars, merge_vars, rec_vars, batch_vars>>
    /\ pc = "chunk_call"
    /\ \E o \in ChunkOutcomes :
        LET step == CallStep(attempt, retries, o) IN
        /\ Invoke(o, step)
        /\ IF step.retry
           THEN UNCHANGED <<pc, previous_context, results, chunk_index>>
           ELSE /\ previous_context' = NextContext(previous_context, step.value)
                /\ results' = RecordResult(results, step.value)
                /\ chunk_index' = chunk_index + 1
                /\ pc' = "chunk_loop"
    /\ UNCHANGED <<unit_kind, content, n_chunks, combined, retries, result, prompts,
                   unit_prompts>>

\* Every kind's parts go to the recombination request
RecombinerAlwaysModel(kind) == "combine_converted_chunks"

\* convert_bas_file calls combine_converted_chunks, convert_cls_file calls
\* merge_class_chunks_locally
Recombiner(kind) ==
    IF kind = "bas" THEN "combine_converted_chunks" ELSE "merge_class_chunks_locally"

\* after the loop: good_parts, then the recombiner
FinishChunks ==
    /\ UNCHANGED <<seg_vars, merge_vars, rec_vars, batch_vars>>
    /\ pc = "chunk_loop"
    /\ chunk_index >= n_chunks
    /\ LET good_parts == GoodParts(results) IN
        IF good_parts = <<>> THEN
            \* return {"error": f"All chunks failed for {filename}"}
            /\ ReturnUnit(ErrorResult(AllChunksFailed))
            /\ UNCHANGED <<combined, attempt, invocations, outcome, unit_prompts>>
        ELSE IF Recombiner(unit_kind) = "combine_converted_chunks" THEN
            \* combined = self.combine_converted_chunks(good_parts, ...)
            /\ unit_prompts' = Append(unit_prompts, CombinePrompt(good_parts))
            /\ StartCall("combine_call")
            /\ UNCHANGED <<combined, result>>
        ELSE
            \* combined = self.merge_class_chunks_locally(good_parts, ...)
            /\ combined' = merge_class_chunks_locally(good_parts)
            /\ pc' = "validate"
            /\ UNCHANGED <<result, attempt, invocations, outcome, unit_prompts>>
    /\ UNCHANGED <<unit_kind, content, n_chunks, chunk_index, retries, previous_context,
                   results, prompts, returns, raised_only,
                   all_accepted>>

\* The recombination request (combine_converted_chunks) or the un-chunked request
FirstAttempt ==
    /\ UNCHANGED <<seg_vars, merge_vars, rec_vars, batch_vars>>
    /\ pc \in {"combine_call", "single_call"}
    /\ \E o \in UnitOutcomes :
        LET step == CallStep(attempt, retries, o) IN
        /\ Invoke(o, step)
        /\ IF step.retry THEN UNCHANGED <<pc, combined>>
           ELSE combined' = step.value /\ pc' = "validate"
    /\ UNCHANGED <<unit_kind, content, n_chunks, chunk_index, retries, previous_context,
                   results, result, prompts, unit_prompts>>

\* if "error" not in combined: ... return self.call_azure_openai(<un-chunked prompt>)
\* return combined
Validate ==
    /\ UNCHANGED <<seg_vars, merge_vars, rec_vars, batch_vars>>
    /\ pc = "validate"
    /\ IF NeedsFallback(combined)
       THEN /\ unit_prompts' = Append(unit_prompts, UnitPrompt(unit_kind, content))
            /\ StartCall("fallback_call")
            /\ UNCHANGED result
       ELSE /\ ReturnUnit(combined)
            /\ UNCHANGED <<attempt, invocations, outcome, unit_prompts>>
    /\ UNCHANGED <<unit_kind, content, n_chunks, chunk_index, combined, retries,
                   previous_context, results, prompts, returns, raised_only,
                   all_accepted>>

\* A variant of FallbackResult: the fallback's result is validated like the first
\* one, and a result without a body block is turned into an error
FallbackResultValidated(v) ==
    IF NeedsFallback(v) THEN ErrorResult(ExhaustedRetries) ELSE v

\* return self.call_azure_openai(...): what the call returns is returned as it is
FallbackResult(v) == v

\* return self.call_azure_openai(...): the fallback's result is the unit's result
FallbackAttempt ==
    /\ UNCHANGED <<seg_vars, merge_vars, rec_vars, batch_vars>>
    /\ pc = "fallback_call"
    /\ \E o \in UnitOutcomes :
        LET step == CallStep(attempt, retries, o) IN
        /\ Invoke(o, step)
        /\ IF step.retry THEN UNCHANGED <<pc, result>>
           ELSE ReturnUnit(FallbackResult(step.value))
    /\ UNCHANGED <<unit_kind, content, n_chunks, chunk_index, combined, retries,
                   previous_context, results, prompts, unit_prompts>>

UnitNext ==
    \/ RejectEmpty
    \/ BeginChunked
    \/ BeginSingle
    \/ BuildChunkPrompt
    \/ ChunkAttempt
    \/ FinishChunks
    \/ FirstAttempt
    \/ Validate
    \/ FallbackAttempt


(***************************************************************************)
(* Text operations shared by the text-level models                         *)
(***************************************************************************)
\* Python's whitespace, as far as these texts have any
IsWhite(c) == c \in {" ", "\t", "\n", "\r"}

\* Python: text.strip(chars)
RECURSIVE LStripOf(_, _)
LStripOf(text, chars) ==
    IF text # <<>> /\ Head(text) \in chars THEN LStripOf(Tail(text), chars) ELSE text
RECURSIVE RStripOf(_, _)
RStripOf(text, chars) ==
    IF text # <<>> /\ text[Len(text)] \in chars
    THEN RStripOf(SubSeq(text, 1, Len(text) - 1), chars) ELSE text
StripOf(text, chars) == RStripOf(LStripOf(text, chars), chars)
WhiteChars == {" ", "\t", "\n", "\r"}

\* Python: text.startswith(word, i - 1)
StartsWithAt(text, i, word) ==
    /\ i + Len(word) - 1 <= Len(text)
    /\ SubSeq(text, i, i + Len(word) - 1) = word

\* Python: text.count(word), word non-empty
RECURSIVE CountFrom(_, _, _)
CountFrom(text, i, word) ==
    IF i + Len(word) - 1 > Len(text) THEN 0
    ELSE IF StartsWithAt(text, i, word) THEN 1 + CountFrom(text, i + Len(word), word)
    ELSE CountFrom(text, i + 1, word)
Count(text, word) == CountFrom(text, 1, word)

\* Python: text.replace(old, '', n), old non-empty
RECURSIVE RemoveFirst(_, _, _)
RemoveFirst(text, old, n) ==
    IF n <= 0 \/ Len(text) < Len(old) THEN text
    ELSE IF StartsWithAt(text, 1, old)
    THEN RemoveFirst(SubSeq(text, Len(old) + 1, Len(text)), old, n - 1)
    ELSE <<Head(text)>> \o RemoveFirst(Tail(text), old, n)

\* Python: sep.join(parts)
RECURSIVE JoinWith(_, _)
JoinWith(sep, parts) ==
    IF parts = <<>> THEN <<>>
    ELSE IF Len(parts) = 1 THEN parts[1]
    ELSE parts[1] \o sep \o JoinWith(sep, Tail(parts))

\* \s* from position i: the position after the run
RECURSIVE SkipWhite(_, _)
SkipWhite(text, i) ==
    IF i <= Len(text) /\ IsWhite(text[i]) THEN SkipWhite(text, i + 1) ELSE i

\* \w
IsWord(c) ==
    c \in {"a", "b", "c", "d", "e", "f", "g", "h", "i", "j", "k", "l", "m", "n", "o", "p",
           "q", "r", "s", "t", "u", "v", "w", "x", "y", "z", "A", "B", "C", "D", "E", "F",
           "G", "H", "I", "J", "K", "L", "M", "N", "O", "P", "Q", "R", "S", "T", "U", "V",
           "W", "X", "Y", "Z", "0", "1", "2", "3", "4", "5", "6", "7", "8", "9", "_"}

\* \w* from position i: the position after the run
RECURSIVE SkipWord(_, _)
SkipWord(text, i) ==
    IF i <= Len(text) /\ IsWord(text[i]) THEN SkipWord(text, i + 1) ELSE i

\* The least and the greatest element of a set of positions; 0 if it is empty
Least(S) == IF S = {} THEN 0 ELSE CHOOSE j \in S : \A k \in S : j <= k
Greatest(S) == IF S = {} THEN 0 ELSE CHOOSE j \in S : \A k \in S : j >= k

\* The first position at or after i holding character c; 0 if there is none
IndexFrom(text, i, c) == Least({j \in i..Len(text) : text[j] = c})

(***************************************************************************)
(* merge_class_chunks_locally on text: the bodies are stripped, joined,    *)
(* scanned for type declarations, and duplicates are removed               *)
(***************************************************************************)
W_public == <<"p", "u", "b", "l", "i", "c">>
W_enum == <<"e", "n", "u", "m">>
W_struct == <<"s", "t", "r", "u", "c", "t">>
W_class == <<"c", "l", "a", "s", "s">>

\* r'(public\s+(enum|struct|class)\s+\w+\s*\{[^}]*\})' matched at position i:
\* the position of the closing brace, 0 if there is no match at i
MatchTypeAt(text, i) ==
    IF ~StartsWithAt(text, i, W_public) THEN 0
    ELSE LET a == i + Len(W_public)
             b == SkipWhite(text, a)
             kw == IF StartsWithAt(text, b, W_enum) THEN Len(W_enum)
                   ELSE IF StartsWithAt(text, b, W_struct) THEN Len(W_struct)
                   ELSE IF StartsWithAt(text, b, W_class) THEN Len(W_class)
                   ELSE 0
             c == b + kw
             d == SkipWhite(text, c)
             e == SkipWord(text, d)
             f == SkipWhite(text, e)
         IN  IF b = a \/ kw = 0 \/ d = c \/ e = d THEN 0
             ELSE IF f > Len(text) \/ text[f] # "{" THEN 0
             ELSE IndexFrom(text, f + 1, "}")

\* types = re.findall(<the pattern>, merged_body, flags=re.DOTALL): the matched
\* texts, left to right, not overlapping
RECURSIVE FindTypesFrom(_, _)
FindTypesFrom(text, i) ==
    IF i > Len(text) THEN <<>>
    ELSE LET e == MatchTypeAt(text, i) IN
         IF e > 0 THEN <<SubSeq(text, i, e)>> \o FindTypesFrom(text, e + 1)
         ELSE FindTypesFrom(text, i + 1)
FindTypes(text) == FindTypesFrom(text, 1)

\* Whether position j is at the start of a line (^ with re.MULTILINE)
AtLineStart(text, j) == j = 1 \/ text[j - 1] = "\n"

\* The end of the line position j is on: the position of its newline, or one
\* past the text
LineEnd(text, j) ==
    LET n == IndexFrom(text, j, "\n") IN IF n = 0 THEN Len(text) + 1 ELSE n

W_using == <<"u", "s", "i", "n", "g">>
W_namespace == <<"n", "a", "m", "e", "s", "p", "a", "c", "e">>
W_IDisposable == <<"I", "D", "i", "s", "p", "o", "s", "a", "b", "l", "e">>

\* ^using\s+[^\n]+;\n? : the last position of the match that starts at j, 0 if none.
\* [^\n]+ runs to the last ";" of the line; it may start inside the whitespace
\* run when the ";" follows the run at once.
UsingLineEnd(text, j) ==
    IF ~(AtLineStart(text, j) /\ StartsWithAt(text, j, W_using)) THEN 0
    ELSE LET a == j + Len(W_using)
             w == SkipWhite(text, a)
             q == Greatest({k \in (w + 1)..(LineEnd(text, w) - 1) : text[k] = ";"})
             semi == IF w = a \/ w > Len(text) THEN 0
                     ELSE IF q # 0 THEN q
                     ELSE IF text[w] = ";" /\ w >= a + 2 /\ text[w - 1] # "\n" THEN w
                     ELSE 0
         IN  IF semi = 0 THEN 0
             ELSE IF semi < Len(text) /\ text[semi + 1] = "\n" THEN semi + 1 ELSE semi

\* \s+[^\{]+\{\s* from position a: the last position of the match, 0 if none
OpenBraceEnd(text, a) ==
    LET w == SkipWhite(text, a)
        q == IndexFrom(text, a, "{")
    IN  IF w = a \/ q = 0 \/ q < a + 2 THEN 0 ELSE SkipWhite(text, q + 1) - 1

\* ^namespace\s+[^\{]+\{\s*
NamespaceHeaderEnd(text, j) ==
    IF AtLineStart(text, j) /\ StartsWithAt(text, j, W_namespace)
    THEN OpenBraceEnd(text, j + Len(W_namespace)) ELSE 0

\* ^public\s+class\s+[^\{]+\{\s*
ClassHeaderEnd(text, j) ==
    IF ~(AtLineStart(text, j) /\ StartsWithAt(text, j, W_public)) THEN 0
    ELSE LET a == j + Len(W_public)
             w == SkipWhite(text, a)
         IN  IF w = a \/ ~StartsWithAt(text, w, W_class) THEN 0
             ELSE OpenBraceEnd(text, w + Len(W_class))

HeaderEnd(kind, text, j) ==
    CASE kind = "using" -> UsingLineEnd(text, j)
      [] kind = "namespace" -> NamespaceHeaderEnd(text, j)
      [] kind = "class" -> ClassHeaderEnd(text, j)

\* re.sub(<header pattern>, '', text, flags=re.MULTILINE), scanning from position i
RECURSIVE RemoveHeadersFrom(_, _, _)
RemoveHeadersFrom(kind, text, i) ==
    LET m == Least({j \in i..Len(text) : HeaderEnd(kind, text, j) # 0})
    IN  IF m = 0 THEN SubSeq(text, i, Len(text))
        ELSE SubSeq(text, i, m - 1) \o RemoveHeadersFrom(kind, text, HeaderEnd(kind, text, m) + 1)

\* The header lines are left where they are
KeepHeaders(class_chunk_code) == class_chunk_code

\* lines 354-356: the using lines, the namespace header and the class header go
StripHeaders(class_chunk_code) ==
    RemoveHeadersFrom("class",
        RemoveHeadersFrom("namespace", RemoveHeadersFrom("using", class_chunk_code, 1), 1), 1)

\* The chunk's text is tested after the header lines are gone
HasDisposableInBody(class_chunk_code) == Count(StripHeaders(class_chunk_code), W_IDisposable) > 0

\* line 349: "IDisposable" in chunk.get("ClassChunk.cs", "")
HasDisposable(class_chunk_code) == Count(class_chunk_code, W_IDisposable) > 0

\* line 352: not class_chunk_code.strip()
IsBlankText(text) == StripOf(text, WhiteChars) = <<>>

\* r'(\w+\s*\([^)]*\)\s*\{\s*\})' matched at position i: the position of the
\* closing brace, 0 if there is no match at i
MatchEmptyMethodAt(text, i) ==
    LET e == SkipWord(text, i)
        f == SkipWhite(text, e)
        g == IF f <= Len(text) /\ text[f] = "(" THEN IndexFrom(text, f + 1, ")") ELSE 0
        h == SkipWhite(text, g + 1)
        k == SkipWhite(text, h + 1)
    IN  IF e = i \/ g = 0 THEN 0
        ELSE IF h > Len(text) \/ text[h] # "{" THEN 0
        ELSE IF k > Len(text) \/ text[k] # "}" THEN 0
        ELSE k

\* " // TODO: Implement body from original VB6"
W_todo == <<" ", "/", "/", " ", "T", "O", "D", "O", ":", " ", "I", "m", "p", "l", "e", "m", "e", "n", "t", " ", "b", "o", "d", "y", " ", "f", "r", "o", "m", " ", "o", "r", "i", "g", "i", "n", "a", "l", " ", "V", "B", "6">>

\* line 365: re.sub(<the pattern>, r'\1 // TODO: ...', merged_body), scanning from i
RECURSIVE MarkEmptyMethodsFrom(_, _)
MarkEmptyMethodsFrom(text, i) ==
    LET m == Least({j \in i..Len(text) : MatchEmptyMethodAt(text, j) # 0})
    IN  IF m = 0 THEN SubSeq(text, i, Len(text))
        ELSE SubSeq(text, i, MatchEmptyMethodAt(text, m)) \o W_todo
                 \o MarkEmptyMethodsFrom(text, MatchEmptyMethodAt(text, m) + 1)
MarkEmptyMethods(text) == MarkEmptyMethodsFrom(text, 1)

\* r'using\s+([^;]+);' matched at position i: the position of the ";", 0 if
\* there is no match at i
MatchUsingAt(text, i) ==
    IF ~StartsWithAt(text, i, W_using) THEN 0
    ELSE LET a == i + Len(W_using)
             w == SkipWhite(text, a)
             q == IndexFrom(text, a, ";")
         IN  IF w = a \/ q = 0 \/ q < a + 2 THEN 0 ELSE q

\* the group ([^;]+) of the match at i: what follows the whitespace run, or the
\* last character of the run when the ";" follows the run at once
UsingGroupAt(text, i) ==
    LET a == i + Len(W_using)
        w == SkipWhite(text, a)
        q == MatchUsingAt(text, i)
    IN  IF q > w THEN SubSeq(text, w, q - 1) ELSE SubSeq(text, q - 1, q - 1)

\* line 368: re.findall(r'using\s+([^;]+);', text), as a set, scanning from i
RECURSIVE FindUsingsFrom(_, _)
FindUsingsFrom(text, i) ==
    LET m == Least({j \in i..Len(text) : MatchUsingAt(text, j) # 0})
    IN  IF m = 0 THEN {}
        ELSE {UsingGroupAt(text, m)} \cup FindUsingsFrom(text, MatchUsingAt(text, m) + 1)
FindUsings(text) == FindUsingsFrom(text, 1)

\* The characters of these texts in the order of their code points
CodePoints ==
    <<"\t", "\n", "\r", " ", "!", "\"", "#", "$", "%", "&", "'", "(", ")", "*", "+", ",", "-",
      ".", "/", "0", "1", "2", "3", "4", "5", "6", "7", "8", "9", ":", ";", "<", "=", ">",
      "?", "@", "A", "B", "C", "D", "E", "F", "G", "H", "I", "J", "K", "L", "M", "N", "O",
      "P", "Q", "R", "S", "T", "U", "V", "W", "X", "Y", "Z", "[", "\\", "]", "^", "_",
      "a", "b", "c", "d", "e", "f", "g", "h", "i", "j", "k", "l", "m", "n", "o", "p", "q",
      "r", "s", "t", "u", "v", "w", "x", "y", "z", "{", "|", "}", "~">>
CodePoint(c) == CHOOSE k \in 1..Len(CodePoints) : CodePoints[k] = c

\* Python's order of strings: a < b
LessText(a, b) ==
    LET d == Least({k \in 1..Len(a) : k > Len(b) \/ a[k] # b[k]})
    IN  IF d = 0 THEN Len(a) < Len(b)
        ELSE d <= Len(b) /\ CodePoint(a[d]) < CodePoint(b[d])

\* sorted(texts)
RECURSIVE SortTexts(_)
SortTexts(texts) ==
    IF texts = {} THEN <<>>
    ELSE LET first == CHOOSE t \in texts : \A u \in texts \ {t} : LessText(t, u)
         IN  <<first>> \o SortTexts(texts \ {first})

\* lines 366-369: the using lines of all chunks, each once, sorted
UsingStr(codes) ==
    LET usings == UNION {FindUsings(codes[k]) : k \in 1..Len(codes)}
    IN  JoinWith(<<"\n">>, SortTexts({W_using \o <<" ">> \o u \o <<";">> : u \in usings}))

\* Python: code.splitlines(), for texts whose only line break is "\n"
RECURSIVE SplitLinesFrom(_, _)
SplitLinesFrom(text, i) ==
    IF i > Len(text) THEN <<>>
    ELSE LET n == IndexFrom(text, i, "\n") IN
         IF n = 0 THEN <<SubSeq(text, i, Len(text))>>
         ELSE <<SubSeq(text, i, n - 1)>> \o SplitLinesFrom(text, n + 1)
SplitLines(text) == SplitLinesFrom(text, 1)

Spaces(n) == [k \in 1..n |-> " "]

\* Every line is indented, the blank ones too
IndentEveryLine(code, spaces) ==
    LET code_lines == SplitLines(code)
    IN  JoinWith(<<"\n">>, [k \in 1..Len(code_lines) |-> Spaces(spaces) \o code_lines[k]])

\* _indent_code: indent + line if line.strip() else ""
IndentCode(code, spaces) ==
    LET code_lines == SplitLines(code)
    IN  JoinWith(<<"\n">>, [k \in 1..Len(code_lines) |->
            IF IsBlankText(code_lines[k]) THEN <<>> ELSE Spaces(spaces) \o code_lines[k]])

W_nl_nl_namespace == <<"\n", "\n", "n", "a", "m", "e", "s", "p", "a", "c", "e", " ">>
\* "\n{\n    public class "
W_open_class == <<"\n", "{", "\n", " ", " ", " ", " ", "p", "u", "b", "l", "i", "c", " ", "c", "l", "a", "s", "s", " ">>
\* ": IDisposable"
W_inheritance == <<":", " ">> \o W_IDisposable
\* "\n    {\n"
W_open_body == <<"\n", " ", " ", " ", " ", "{", "\n">>
\* "\n    }\n}\n"
W_close == <<"\n", " ", " ", " ", " ", "}", "\n", "}", "\n">>
IndentWidth == 8

\* lines 370-371: the using lines, then the namespace and the class around the
\* indented body
FullCode(using_str, ns, cls, disposable, body) ==
    using_str \o W_nl_nl_namespace \o ns \o W_open_class \o cls \o <<" ">>
        \o (IF disposable THEN W_inheritance ELSE <<>>)
        \o W_open_body \o IndentCode(body, IndentWidth) \o W_close

\* types.count(dup)
CountIn(sq, x) == Cardinality({k \in 1..Len(sq) : sq[k] = x})

\* body = body.strip('} \n'); chunk_bodies.append(body.strip())
StripBody(body) == StripOf(StripOf(body, {"}", " ", "\n"}), WhiteChars)

\* if types.count(dup) > 1: merged_body = merged_body.replace(dup[0], '', types.count(dup) - 1)
RemoveDuplicates(text, found, declaration) ==
    IF CountIn(found, declaration) > 1
    THEN RemoveFirst(text, declaration, CountIn(found, declaration) - 1)
    ELSE text

\* Members a converted chunk may hold
\* "public struct F{a}"
D_StructFa == <<"p", "u", "b", "l", "i", "c", " ", "s", "t", "r", "u", "c", "t", " ", "F", "{", "a", "}">>
\* "public struct F{b}"
D_StructFb == <<"p", "u", "b", "l", "i", "c", " ", "s", "t", "r", "u", "c", "t", " ", "F", "{", "b", "}">>
\* "public enum E{p}"
D_EnumE == <<"p", "u", "b", "l", "i", "c", " ", "e", "n", "u", "m", " ", "E", "{", "p", "}">>
\* "int x;"
M_Field == <<"i", "n", "t", " ", "x", ";">>
Declarations == {D_StructFa, D_StructFb, D_EnumE}
Members == Declarations \cup {M_Field}

MaxParts == 2
MemberCounts == {1, 2}

\* A chunk's body: one or two members, one per line, with or without the closing
\* brace of the class the chunk was wrapped in
MemberLists == UNION {[1..n -> Members] : n \in MemberCounts}
ChunkBodyTexts(wrapped) ==
    {JoinNL(ms) \o (IF wrapped THEN <<"\n", "}">> ELSE <<>>) : ms \in MemberLists}
PlainInputs ==
    UNION {[1..n -> ChunkBodyTexts(w)] : n \in 1..MaxParts, w \in BOOLEAN}

\* Chunk texts as the backend emits them, with and without the lines around the members
\* "using System;\n\nnamespace N\n{\n    public class K\n    {\n        int x;\n    }\n}"
H_Whole == <<"u", "s", "i", "n", "g", " ", "S", "y", "s", "t", "e", "m", ";", "\n", "\n", "n", "a", "m", "e", "s", "p", "a", "c", "e", " ", "N", "\n", "{", "\n", " ", " ", " ", " ", "p", "u", "b", "l", "i", "c", " ", "c", "l", "a", "s", "s", " ", "K", "\n", " ", " ", " ", " ", "{", "\n", " ", " ", " ", " ", " ", " ", " ", " ", "i", "n", "t", " ", "x", ";", "\n", " ", " ", " ", " ", "}", "\n", "}">>
\* "public class K : IDisposable\n{\nvoid Dispose(){}\n}"
H_DisposableClass == <<"p", "u", "b", "l", "i", "c", " ", "c", "l", "a", "s", "s", " ", "K", " ", ":", " ", "I", "D", "i", "s", "p", "o", "s", "a", "b", "l", "e", "\n", "{", "\n", "v", "o", "i", "d", " ", "D", "i", "s", "p", "o", "s", "e", "(", ")", "{", "}", "\n", "}">>
\* "using System.IO;\nint y;"
H_UsingOnly == <<"u", "s", "i", "n", "g", " ", "S", "y", "s", "t", "e", "m", ".", "I", "O", ";", "\n", "i", "n", "t", " ", "y", ";">>
\* " \n"
H_Blank == <<" ", "\n">>
\* "IDisposable d;\n\nvoid M() { }"
H_DisposableMember == <<"I", "D", "i", "s", "p", "o", "s", "a", "b", "l", "e", " ", "d", ";", "\n", "\n", "v", "o", "i", "d", " ", "M", "(", ")", " ", "{", " ", "}">>
\* "namespace N\n{\n    [A]\n    public class K\n    {\n        int z;\n    }\n}"
H_Attributed == <<"n", "a", "m", "e", "s", "p", "a", "c", "e", " ", "N", "\n", "{", "\n", " ", " ", " ", " ", "[", "A", "]", "\n", " ", " ", " ", " ", "p", "u", "b", "l", "i", "c", " ", "c", "l", "a", "s", "s", " ", "K", "\n", " ", " ", " ", " ", "{", "\n", " ", " ", " ", " ", " ", " ", " ", " ", "i", "n", "t", " ", "z", ";", "\n", " ", " ", " ", " ", "}", "\n", "}">>
HeaderChunkTexts ==
    {H_Whole, H_DisposableClass, H_UsingOnly, H_Blank, H_DisposableMember, H_Attributed, M_Field}
HeaderInputs == UNION {[1..n -> HeaderChunkTexts] : n \in 1..MaxParts}

MergeInputs == PlainInputs \cup HeaderInputs
ClassNames == {<<"K">>, <<"L", "o", "g">>}
Namespaces == {<<"N">>}

MergeStart ==
    /\ class_chunks \in MergeInputs
    /\ class_name \in ClassNames
    /\ namespace \in Namespaces
    /\ has_disposable = FALSE
    /\ bodies = <<>>
    /\ chunk_bodies = <<>>
    /\ merged_body = <<>>
    /\ types = <<>>
    /\ dup = 1
    /\ full_code = <<>>
    /\ merge_pc = "headers"

MergeIdle ==
    /\ class_chunks = <<>>
    /\ class_name = <<>>
    /\ namespace = <<>>
    /\ has_disposable = FALSE
    /\ bodies = <<>>
    /\ chunk_bodies = <<>>
    /\ merged_body = <<>>
    /\ types = <<>>
    /\ dup = 1
    /\ full_code = <<>>
    /\ merge_pc = "idle"

\* has_disposable = any(...); for chunk in chunks: if not class_chunk_code.strip():
\* continue; body = re.sub(...) three times
RemoveHeaders ==
    /\ merge_pc = "headers"
    /\ has_disposable' = (\E k \in 1..Len(class_chunks) : HasDisposable(class_chunks[k]))
    /\ bodies' = LET kept == SelectSeq(class_chunks, LAMBDA code : ~IsBlankText(code))
                 IN  [k \in 1..Len(kept) |-> StripHeaders(kept[k])]
    /\ merge_pc' = "strip"
    /\ UNCHANGED <<class_chunks, class_name, namespace, chunk_bodies, merged_body, types, dup,
                   full_code>>
    /\ UNCHANGED <<seg_vars, unit_vars, rec_vars, batch_vars>>

\* for chunk in chunks: ... body = body.strip('} \n'); chunk_bodies.append(body.strip())
StripBodies ==
    /\ merge_pc = "strip"
    /\ chunk_bodies' = [k \in 1..Len(bodies) |-> StripBody(bodies[k])]
    /\ merge_pc' = "join"
    /\ UNCHANGED <<class_chunks, class_name, namespace, has_disposable, bodies, merged_body,
                   types, dup, full_code>>
    /\ UNCHANGED <<seg_vars, unit_vars, rec_vars, batch_vars>>

\* merged_body = "\n\n".join(chunk_bodies); types = re.findall(...)
JoinBodies ==
    /\ merge_pc = "join"
    /\ merged_body' = JoinWith(<<"\n", "\n">>, chunk_bodies)
    /\ types' = FindTypes(merged_body')
    /\ dup' = 1
    /\ merge_pc' = "dedupe"
    /\ UNCHANGED <<class_chunks, class_name, namespace, has_disposable, bodies, chunk_bodies,
                   full_code>>
    /\ UNCHANGED <<seg_vars, unit_vars, rec_vars, batch_vars>>

\* for dup in types: if types.count(dup) > 1: merged_body = merged_body.replace(...)
RemoveDuplicate ==
    /\ merge_pc = "dedupe"
    /\ dup <= Len(types)
    /\ merged_body' = RemoveDuplicates(merged_body, types, types[dup])
    /\ dup' = dup + 1
    /\ UNCHANGED <<class_chunks, class_name, namespace, has_disposable, bodies, chunk_bodies,
                   types, full_code, merge_pc>>
    /\ UNCHANGED <<seg_vars, unit_vars, rec_vars, batch_vars>>

\* the loop is over: merged_body goes on to the wrapper
FinishDedupe ==
    /\ merge_pc = "dedupe"
    /\ dup > Len(types)
    /\ merge_pc' = "wrap"
    /\ UNCHANGED <<class_chunks, class_name, namespace, has_disposable, bodies, chunk_bodies,
                   merged_body, types, dup, full_code>>
    /\ UNCHANGED <<seg_vars, unit_vars, rec_vars, batch_vars>>

\* lines 365-372: the empty methods are marked, the using lines collected, and
\* the namespace and the class are written around the indented body
Wrap ==
    /\ merge_pc = "wrap"
    /\ merged_body' = MarkEmptyMethods(merged_body)
    /\ full_code' = FullCode(UsingStr(class_chunks), namespace, class_name, has_disposable,
                             merged_body')
    /\ merge_pc' = "done"
    /\ UNCHANGED <<class_chunks, class_name, namespace, has_disposable, bodies, chunk_bodies,
                   types, dup>>
    /\ UNCHANGED <<seg_vars, unit_vars, rec_vars, batch_vars>>

MergeNext ==
    RemoveHeaders \/ StripBodies \/ JoinBodies \/ RemoveDuplicate \/ FinishDedupe \/ Wrap

(***************************************************************************)
(* extract_json_from_response on text.  json.loads is modelled on the JSON *)
(* these texts can hold: objects of string keys and string values.         *)
(***************************************************************************)
\* The backquote character (one element of a text)
BackQuote == "backquote"
W_fence == <<BackQuote, BackQuote, BackQuote>>
W_fence_json == W_fence \o <<"j", "s", "o", "n">>
W_error == <<"e", "r", "r", "o", "r">>
W_empty_response == <<"E", "m", "p", "t", "y", " ", "r", "e", "s", "p", "o", "n", "s", "e", " ", "f", "r", "o", "m", " ", "A", "P", "I">>
W_invalid_json == <<"I", "n", "v", "a", "l", "i", "d", " ", "J", "S", "O", "N", " ", "r", "e", "s", "p", "o", "n", "s", "e", ":", " ">>
W_ellipsis == <<".", ".", ".">>

\* re.sub(r'^```json\s*', '', text, flags=re.MULTILINE), scanning from position i:
\* the text up to the next match is kept, the match is dropped
RECURSIVE RemoveFenceOpenFrom(_, _)
RemoveFenceOpenFrom(text, i) ==
    LET m == Least({j \in i..Len(text) :
                     (j = 1 \/ text[j - 1] = "\n") /\ StartsWithAt(text, j, W_fence_json)})
    IN  IF m = 0 THEN SubSeq(text, i, Len(text))
        ELSE SubSeq(text, i, m - 1)
                \o RemoveFenceOpenFrom(text, SkipWhite(text, m + Len(W_fence_json)))

\* $ with re.MULTILINE: at the end of the text or before a newline
AtLineEnd(text, i) == i > Len(text) \/ text[i] = "\n"

\* The closing fence left in place
KeepFenceClose(text, i) == SubSeq(text, i, Len(text))

\* The end of the match of \n?```$ that starts at position j; 0 if none starts there
FenceCloseEnd(text, j) ==
    IF j > Len(text) THEN 0
    ELSE IF text[j] = "\n" /\ StartsWithAt(text, j + 1, W_fence)
                /\ AtLineEnd(text, j + 1 + Len(W_fence))
    THEN j + Len(W_fence)
    ELSE IF StartsWithAt(text, j, W_fence) /\ AtLineEnd(text, j + Len(W_fence))
    THEN j + Len(W_fence) - 1
    ELSE 0

\* re.sub(r'\n?```$', '', text, flags=re.MULTILINE), scanning from position i
RECURSIVE RemoveFenceCloseFrom(_, _)
RemoveFenceCloseFrom(text, i) ==
    LET m == Least({j \in i..Len(text) : FenceCloseEnd(text, j) # 0})
    IN  IF m = 0 THEN SubSeq(text, i, Len(text))
        ELSE SubSeq(text, i, m - 1) \o RemoveFenceCloseFrom(text, FenceCloseEnd(text, m) + 1)

\* lines 437-439
StripFences(text) ==
    StripOf(RemoveFenceCloseFrom(RemoveFenceOpenFrom(text, 1), 1), WhiteChars)

\* JSON whitespace from position i
RECURSIVE SkipJsonWhite(_, _)
SkipJsonWhite(text, i) ==
    IF i <= Len(text) /\ text[i] \in {" ", "\t", "\n", "\r"}
    THEN SkipJsonWhite(text, i + 1) ELSE i

NoParse == [ok |-> FALSE, val |-> <<>>, next |-> 0]

\* Escapes read as the character after the backslash
UnescapedLiterally(c) == IF c \in {"\"", "\\", "/", "n", "t", "r"} THEN c ELSE ""

\* The character an escape \c stands for ("" if \c is no escape)
Unescaped(c) ==
    CASE c = "\"" -> "\""
      [] c = "\\" -> "\\"
      [] c = "/" -> "/"
      [] c = "n" -> "\n"
      [] c = "t" -> "\t"
      [] c = "r" -> "\r"
      [] OTHER -> ""

\* The rest of a JSON string from position i (after the opening quote): its
\* value and the position after the closing quote.  Control characters are
\* rejected (strict mode).
RECURSIVE ParseStringBody(_, _)
ParseStringBody(text, i) ==
    IF i > Len(text) THEN NoParse
    ELSE IF text[i] = "\"" THEN [ok |-> TRUE, val |-> <<>>, next |-> i + 1]
    ELSE IF text[i] \in {"\n", "\t", "\r"} THEN NoParse
    ELSE IF text[i] = "\\" THEN
        IF i + 1 > Len(text) \/ Unescaped(text[i + 1]) = "" THEN NoParse
        ELSE LET rest == ParseStringBody(text, i + 2) IN
             IF rest.ok THEN [rest EXCEPT !.val = <<Unescaped(text[i + 1])>> \o @] ELSE NoParse
    ELSE LET rest == ParseStringBody(text, i + 1) IN
         IF rest.ok THEN [rest EXCEPT !.val = <<text[i]>> \o @] ELSE NoParse

ParseString(text, i) ==
    IF i <= Len(text) /\ text[i] = "\"" THEN ParseStringBody(text, i + 1) ELSE NoParse

\* The members of an object from position i (at a key): the mapping and the
\* position after the closing brace.  A later duplicate key wins.
RECURSIVE ParseMembers(_, _)
ParseMembers(text, i) ==
    LET key == ParseString(text, i) IN
    IF ~key.ok THEN NoParse
    ELSE LET colon == SkipJsonWhite(text, key.next) IN
    IF colon > Len(text) \/ text[colon] # ":" THEN NoParse
    ELSE LET value == ParseString(text, SkipJsonWhite(text, colon + 1)) IN
    IF ~value.ok THEN NoParse
    ELSE LET after == SkipJsonWhite(text, value.next) IN
    IF after > Len(text) THEN NoParse
    ELSE IF text[after] = "}"
    THEN [ok |-> TRUE, val |-> (key.val :> value.val), next |-> after + 1]
    ELSE IF text[after] = ","
    THEN LET rest == ParseMembers(text, SkipJsonWhite(text, after + 1)) IN
         IF rest.ok THEN [rest EXCEPT !.val = @ @@ (key.val :> value.val)] ELSE NoParse
    ELSE NoParse

ParseObject(text, i) ==
    IF i > Len(text) \/ text[i] # "{" THEN NoParse
    ELSE LET first == SkipJsonWhite(text, i + 1) IN
         IF first <= Len(text) /\ text[first] = "}"
         THEN [ok |-> TRUE, val |-> <<>>, next |-> first + 1]
         ELSE ParseMembers(text, first)

\* json.loads(text): ok and the mapping, or not ok (json.JSONDecodeError)
json_loads(text) ==
    LET object == ParseObject(text, SkipJsonWhite(text, 1)) IN
    IF object.ok /\ SkipJsonWhite(text, object.next) > Len(text)
    THEN [ok |-> TRUE, val |-> object.val]
    ELSE [ok |-> FALSE, val |-> <<>>]

\* Python: text.replace(old, new), scanning from position i
RECURSIVE ReplaceAllFrom(_, _, _, _)
ReplaceAllFrom(text, i, old, new) ==
    LET m == Least({j \in i..Len(text) : StartsWithAt(text, j, old)})
    IN  IF m = 0 THEN SubSeq(text, i, Len(text))
        ELSE SubSeq(text, i, m - 1) \o new \o ReplaceAllFrom(text, m + Len(old), old, new)
ReplaceAll(text, old, new) == ReplaceAllFrom(text, 1, old, new)

\* fixed = cleaned.replace('\\"', '"').replace('\\\\', '\\')
FixEscapes(text) ==
    ReplaceAll(ReplaceAll(text, <<"\\", "\"">>, <<"\"">>), <<"\\", "\\">>, <<"\\">>)

\* The brace-counting loop from position i: the first span at which the count
\* returns to 0 with a start recorded (found), or no span
RECURSIVE BalancedSpanFrom(_, _, _, _)
BalancedSpanFrom(text, i, brace_count, start_idx) ==
    LET b == Least({j \in i..Len(text) : text[j] \in {"{", "}"}})
    IN  IF b = 0 THEN [found |-> FALSE, span |-> <<>>]
        ELSE IF text[b] = "{"
        THEN BalancedSpanFrom(text, b + 1, brace_count + 1,
                              IF brace_count = 0 THEN b ELSE start_idx)
        ELSE IF brace_count - 1 = 0 /\ start_idx # 0
        THEN [found |-> TRUE, span |-> SubSeq(text, start_idx, b)]
        ELSE BalancedSpanFrom(text, b + 1, brace_count - 1, start_idx)
FirstBalancedSpan(text) == BalancedSpanFrom(text, 1, 0, 0)

\* The last position up to i holding character c; 0 if there is none
LastIndex(text, i, c) == Greatest({j \in 1..i : text[j] = c})

\* re.search(r'\{[\s\S]*\}', text): from the first "{" to the last "}"
GreedyBraceSpan(text) ==
    LET a == IndexFrom(text, 1, "{")
        b == LastIndex(text, Len(text), "}")
    IN  IF a > 0 /\ b > a
        THEN [found |-> TRUE, span |-> SubSeq(text, a, b)]
        ELSE [found |-> FALSE, span |-> <<>>]

\* {"error": message}
ErrorMapping(message) == W_error :> message
\* f"Invalid JSON response: {cleaned[:200]}..."
PreviewLength == 200
\* The message with the whole text in it
InvalidJsonMessageWhole(text) == W_invalid_json \o text \o W_ellipsis
InvalidJsonMessage(text) ==
    W_invalid_json
        \o SubSeq(text, 1, IF Len(text) < PreviewLength THEN Len(text) ELSE PreviewLength)
        \o W_ellipsis

\* json.dumps of one character of a string
Escaped(c) ==
    CASE c = "\"" -> <<"\\", "\"">>
      [] c = "\\" -> <<"\\", "\\">>
      [] c = "\n" -> <<"\\", "n">>
      [] c = "\t" -> <<"\\", "t">>
      [] c = "\r" -> <<"\\", "r">>
      [] OTHER -> <<c>>
RECURSIVE EscapeText(_)
EscapeText(text) ==
    IF text = <<>> THEN <<>> ELSE Escaped(Head(text)) \o EscapeText(Tail(text))
Quoted(text) == <<"\"">> \o EscapeText(text) \o <<"\"">>
RECURSIVE SerializeMembers(_)
SerializeMembers(pairs) ==
    IF pairs = <<>> THEN <<>>
    ELSE Quoted(pairs[1][1]) \o <<":", " ">> \o Quoted(pairs[1][2])
            \o (IF Len(pairs) > 1 THEN <<",", " ">> ELSE <<>>)
            \o SerializeMembers(Tail(pairs))
\* The serialization of a mapping given as its (key, value) pairs in order
Serialize(pairs) == <<"{">> \o SerializeMembers(pairs) \o <<"}">>

\* The mapping a list of (key, value) pairs denotes
RECURSIVE MappingOf(_)
MappingOf(pairs) ==
    IF pairs = <<>> THEN <<>>
    ELSE (pairs[Len(pairs)][1] :> pairs[Len(pairs)][2])
            @@ MappingOf(SubSeq(pairs, 1, Len(pairs) - 1))

\* Mappings a reply can carry
X_Plain == <<<<<<"a">>, <<"b">>>>>>
X_Two == <<<<<<"a">>, <<"b">>>>, <<<<"c">>, <<"d">>>>>>
X_Empty == <<>>
X_Quote == <<<<<<"a">>, <<"q", "\"">>>>>>
X_Backslash == <<<<<<"a">>, <<"\\", "n">>>>>>
X_Newline == <<<<<<"a">>, <<"x", "\n">>>>>>
X_CloseBrace == <<<<<<"a">>, <<"}">>>>>>
X_OpenBrace == <<<<<<"a">>, <<"{">>>>>>
X_Code == <<<<<<"k">>, <<"A", "{", " ", "}">>>>>>
X_Fence == <<<<<<"a">>, <<BackQuote, BackQuote, BackQuote>>>>>>
Mappings ==
    {X_Plain, X_Two, X_Empty, X_Quote, X_Backslash, X_Newline, X_CloseBrace,
     X_OpenBrace, X_Code, X_Fence}

\* Prose around an object
T_Prose == <<" ", "O", "k", ".">>
T_ProseBraces == <<" ", "s", "e", "e", " ", "{", "x", "}">>
T_Lead == <<"H", "e", "r", "e", ":", " ">>
T_NotJson == <<"o", "o", "p", "s">>
\* A text longer than the preview the error message keeps
T_LongNotJson == [i \in 1..(PreviewLength + 3) |-> IF i = PreviewLength + 2 THEN "y" ELSE "x"]

\* The ways a reply presents its object
FencedForms == {"fenced", "fenced_inline", "bare_fence"}
ProseForms == {"prose", "prose_braces"}
Forms == {"plain", "lead_prose"} \cup FencedForms \cup ProseForms
Present(form, text) ==
    CASE form = "plain" -> text
      [] form = "fenced" -> W_fence_json \o <<"\n">> \o text \o <<"\n">> \o W_fence
      [] form = "fenced_inline" -> W_fence_json \o <<" ">> \o text \o W_fence
      [] form = "bare_fence" -> W_fence \o <<"\n">> \o text \o <<"\n">> \o W_fence \o <<"\n">>
      [] form = "prose" -> text \o T_Prose
      [] form = "prose_braces" -> text \o T_ProseBraces
      [] form = "lead_prose" -> T_Lead \o text
      [] form = "not_json" -> T_NotJson
      [] form = "long_not_json" -> T_LongNotJson
      [] form = "blank" -> <<" ", "\n">>
      [] OTHER -> <<>>
NoInput == [pairs |-> <<>>, form |-> "none"]
\* Replies that carry no object
NoObjectForms == {"not_json", "long_not_json", "blank"}
RecInputs ==
    {[pairs |-> x, form |-> f] : x \in Mappings, f \in Forms}
        \cup {[pairs |-> <<>>, form |-> f] : f \in NoObjectForms} \cup {NoInput}

\* The whole of extract_json_from_response
Recover(text) ==
    IF text = <<>> THEN ErrorMapping(W_empty_response)
    ELSE LET clean == StripFences(text)
             direct == json_loads(clean)
             balanced == FirstBalancedSpan(FixEscapes(clean))
             scanned == json_loads(balanced.span)
             greedy == GreedyBraceSpan(clean)
             searched == json_loads(greedy.span)
         IN  IF direct.ok THEN direct.val
             ELSE IF balanced.found /\ scanned.ok THEN scanned.val
             ELSE IF greedy.found /\ searched.ok THEN searched.val
             ELSE ErrorMapping(InvalidJsonMessage(clean))

RecStart ==
    /\ rec_input \in RecInputs
    /\ response_content = Present(rec_input.form, Serialize(rec_input.pairs))
    /\ cleaned = <<>>
    /\ recovered = <<>>
    /\ stages = <<>>
    /\ rec_pc = "clean"

\* lines 435-439
Clean ==
    /\ rec_pc = "clean"
    /\ IF response_content = <<>>
       THEN /\ recovered' = ErrorMapping(W_empty_response)
            /\ rec_pc' = "done"
            /\ UNCHANGED cleaned
       ELSE /\ cleaned' = StripFences(response_content)
            /\ rec_pc' = "parse"
            /\ UNCHANGED recovered
    /\ stages' = Append(stages, "empty_check")
    /\ UNCHANGED <<response_content, rec_input>>
    /\ UNCHANGED <<seg_vars, unit_vars, merge_vars, batch_vars>>

\* lines 440-443
ParseDirect ==
    /\ rec_pc = "parse"
    /\ LET direct == json_loads(cleaned) IN
       IF direct.ok
       THEN recovered' = direct.val /\ rec_pc' = "done"
       ELSE rec_pc' = "scan" /\ UNCHANGED recovered
    /\ stages' = Append(stages, "direct_parse")
    /\ UNCHANGED <<response_content, cleaned, rec_input>>
    /\ UNCHANGED <<seg_vars, unit_vars, merge_vars, batch_vars>>

\* lines 444-459
ScanBraces ==
    /\ rec_pc = "scan"
    /\ LET balanced == FirstBalancedSpan(FixEscapes(cleaned))
           scanned == json_loads(balanced.span)
       IN  IF balanced.found /\ scanned.ok
           THEN recovered' = scanned.val /\ rec_pc' = "done"
           ELSE rec_pc' = "search" /\ UNCHANGED recovered
    /\ stages' = Append(stages, "brace_scan")
    /\ UNCHANGED <<response_content, cleaned, rec_input>>
    /\ UNCHANGED <<seg_vars, unit_vars, merge_vars, batch_vars>>

\* lines 460-469
SearchPattern ==
    /\ rec_pc = "search"
    /\ LET greedy == GreedyBraceSpan(cleaned)
           searched == json_loads(greedy.span)
       IN  recovered' = IF greedy.found /\ searched.ok THEN searched.val
                        ELSE ErrorMapping(InvalidJsonMessage(cleaned))
    /\ rec_pc' = "done"
    /\ stages' = Append(stages, "greedy_match")
    /\ UNCHANGED <<response_content, cleaned, rec_input>>
    /\ UNCHANGED <<seg_vars, unit_vars, merge_vars, batch_vars>>

RecNext == Clean \/ ParseDirect \/ ScanBraces \/ SearchPattern

(***************************************************************************)
(* convert_vb6_project: the loop over the input files and the pass over    *)
(* the expected main files. A file is its stem, its suffix and its text;   *)
(* the converter is taken by what it returns.                              *)
(***************************************************************************)
LargeFile == 10000

FileName(stem, ext) == [stem |-> stem, ext |-> ext]
NameOf(file) == FileName(file.stem, file.ext)

\* f"{vb_path.name} ({note})"; a bare name is the entry without a note
Entry(name, note) == [name |-> name, note |-> note]
BareEntry(name) == Entry(name, "")

\* x in xs
IsIn(x, xs) == \E k \in 1..Len(xs) : xs[k] = x

\* The texts a file may hold: unreadable, blank, up to LargeFile characters, more
Unreadable == [readable |-> FALSE, len |-> 0, blank |-> TRUE]
FileContents ==
    {Unreadable,
     [readable |-> TRUE, len |-> 1, blank |-> TRUE],
     [readable |-> TRUE, len |-> LargeFile, blank |-> FALSE],
     [readable |-> TRUE, len |-> LargeFile + 1, blank |-> FALSE]}

SourceNames == {FileName("A", ".bas"), FileName("Main", ".bas"), FileName("Main", ".cls")}
OtherNames == {FileName("R", ".txt")}
SourceFiles ==
    {[stem |-> n.stem, ext |-> n.ext, content |-> c] : n \in SourceNames, c \in FileContents}
OtherFiles ==
    {[stem |-> n.stem, ext |-> n.ext, content |-> [readable |-> TRUE, len |-> 1, blank |-> FALSE]] :
        n \in OtherNames}

MaxUnits == 3
\* The directory listings: no two files of a listing have the same name
Batches ==
    UNION {{b \in [1..n -> SourceFiles \cup OtherFiles] :
                \A i, j \in 1..n : i # j => NameOf(b[i]) # NameOf(b[j])} : n \in 0..MaxUnits}

\* What convert_bas_file / convert_cls_file may return: files, an error, or the
\* list holding "error" that call_azure_openai hands back from the recoverer
ConverterResults ==
    {"Class.cs" :> GoodCode, ErrorResult(AllChunksFailed), ListValue({"error"})}

\* expected_mains
ExpectedMains ==
    <<FileName("MainModule", ".bas"), FileName("MainClass", ".cls"),
      FileName("Main", ".bas"), FileName("Main", ".cls")>>

\* missing_mains = [f for f in expected_mains
\*                  if f not in successful_files and f not in failed_files]
MissingMains(successful, failed) ==
    SelectSeq(ExpectedMains, LAMBDA f : ~IsIn(f, successful) /\ ~IsIn(BareEntry(f), failed))

\* The failure of a file leaves no trace
ForgetFailure(failed, name, note) == failed

\* failed_files.append(f"{vb_path.name} ({note})")
RecordFailure(failed, name, note) == Append(failed, Entry(name, note))

BatchStart ==
    /\ batch \in Batches
    /\ batch_index = 1
    /\ successful_files = <<>>
    /\ failed_files = <<>>
    /\ large_files = <<>>
    /\ missing_mains = <<>>
    /\ mains_index = 1
    /\ conversions = <<>>
    /\ batch_pc = "files"

BatchIdle ==
    /\ batch = <<>>
    /\ batch_index = 1
    /\ successful_files = <<>>
    /\ failed_files = <<>>
    /\ large_files = <<>>
    /\ missing_mains = <<>>
    /\ mains_index = 1
    /\ conversions = <<>>
    /\ batch_pc = "idle"

\* if ext not in [".bas", ".cls"]: continue
SkipOtherFile ==
    /\ batch_pc = "files"
    /\ batch_index <= Len(batch)
    /\ batch[batch_index].ext \notin {".bas", ".cls"}
    /\ batch_index' = batch_index + 1
    /\ UNCHANGED <<batch, successful_files, failed_files, large_files, missing_mains,
                   mains_index, conversions, batch_pc>>
    /\ UNCHANGED <<seg_vars, unit_vars, merge_vars, rec_vars>>

\* except Exception: failed_files.append(f"{vb_path.name} (read error)"); continue
ReadError ==
    /\ batch_pc = "files"
    /\ batch_index <= Len(batch)
    /\ batch[batch_index].ext \in {".bas", ".cls"}
    /\ ~batch[batch_index].content.readable
    /\ failed_files' = RecordFailure(failed_files, NameOf(batch[batch_index]), "read error")
    /\ batch_index' = batch_index + 1
    /\ UNCHANGED <<batch, successful_files, large_files, missing_mains, mains_index,
                   conversions, batch_pc>>
    /\ UNCHANGED <<seg_vars, unit_vars, merge_vars, rec_vars>>

\* if len(content.strip()) == 0: failed_files.append(f"{vb_path.name} (empty)"); continue
SkipEmptyFile ==
    /\ batch_pc = "files"
    /\ batch_index <= Len(batch)
    /\ batch[batch_index].ext \in {".bas", ".cls"}
    /\ batch[batch_index].content.readable
    /\ batch[batch_index].content.blank
    /\ failed_files' = RecordFailure(failed_files, NameOf(batch[batch_index]), "empty")
    /\ batch_index' = batch_index + 1
    /\ UNCHANGED <<batch, successful_files, large_files, missing_mains, mains_index,
                   conversions, batch_pc>>
    /\ UNCHANGED <<seg_vars, unit_vars, merge_vars, rec_vars>>

\* if len(content) > 10000: large_files.append(...); converted = converter.convert_...;
\* if "error" in converted: failed_files.append(...); continue; ...;
\* successful_files.append(vb_path.name)
ConvertFile ==
    /\ batch_pc = "files"
    /\ batch_index <= Len(batch)
    /\ batch[batch_index].ext \in {".bas", ".cls"}
    /\ batch[batch_index].content.readable
    /\ ~batch[batch_index].content.blank
    /\ large_files' = IF batch[batch_index].content.len > LargeFile
                      THEN Append(large_files, NameOf(batch[batch_index])) ELSE large_files
    /\ \E converted \in ConverterResults :
        /\ conversions' = Append(conversions, [name |-> NameOf(batch[batch_index]),
                                               converted |-> converted])
        /\ IF HasError(converted) /\ ~IsMapping(converted)
           THEN \* logger.warning(f"... {converted['error']}") raises TypeError outside the
                \* loop's try: except Exception: raise HTTPException(status_code=500, ...)
                /\ batch_pc' = "failed"
                /\ UNCHANGED <<successful_files, failed_files, batch_index>>
           ELSE IF HasError(converted)
           THEN /\ failed_files' = RecordFailure(failed_files, NameOf(batch[batch_index]),
                                                 "conversion failed")
                /\ batch_index' = batch_index + 1
                /\ UNCHANGED <<successful_files, batch_pc>>
           ELSE /\ successful_files' = Append(successful_files, NameOf(batch[batch_index]))
                /\ batch_index' = batch_index + 1
                /\ UNCHANGED <<failed_files, batch_pc>>
    /\ UNCHANGED <<batch, missing_mains, mains_index>>
    /\ UNCHANGED <<seg_vars, unit_vars, merge_vars, rec_vars>>

\* the loop over the files is over: missing_mains = [...]
FinishFiles ==
    /\ batch_pc = "files"
    /\ batch_index > Len(batch)
    /\ missing_mains' = MissingMains(successful_files, failed_files)
    /\ mains_index' = 1
    /\ batch_pc' = "mains"
    /\ UNCHANGED <<batch, batch_index, successful_files, failed_files, large_files, conversions>>
    /\ UNCHANGED <<seg_vars, unit_vars, merge_vars, rec_vars>>

\* vb_path = next(input_dir.rglob(missing), None)
FilesNamed(name) == {k \in 1..Len(batch) : NameOf(batch[k]) = name}

\* if vb_path and vb_path.is_file(): ... if content.strip(): -- neither holds
RetryNothing ==
    /\ batch_pc = "mains"
    /\ mains_index <= Len(missing_mains)
    /\ \A k \in FilesNamed(missing_mains[mains_index]) :
        batch[k].content.readable /\ batch[k].content.blank
    /\ mains_index' = mains_index + 1
    /\ UNCHANGED <<batch, batch_index, successful_files, failed_files, large_files,
                   missing_mains, conversions, batch_pc>>
    /\ UNCHANGED <<seg_vars, unit_vars, merge_vars, rec_vars>>

\* except Exception: failed_files.append(f"{missing} (retry error)")
RetryReadError ==
    /\ batch_pc = "mains"
    /\ mains_index <= Len(missing_mains)
    /\ \E k \in FilesNamed(missing_mains[mains_index]) : ~batch[k].content.readable
    /\ failed_files' = RecordFailure(failed_files, missing_mains[mains_index], "retry error")
    /\ mains_index' = mains_index + 1
    /\ UNCHANGED <<batch, batch_index, successful_files, large_files, missing_mains,
                   conversions, batch_pc>>
    /\ UNCHANGED <<seg_vars, unit_vars, merge_vars, rec_vars>>

\* converted = converter.convert_...(content, missing, namespace);
\* if "error" in converted: failed_files.append(f"{missing} (retry failed)"); continue; ...;
\* successful_files.append(missing)
RetryMain ==
    /\ batch_pc = "mains"
    /\ mains_index <= Len(missing_mains)
    /\ \E k \in FilesNamed(missing_mains[mains_index]) :
        batch[k].content.readable /\ ~batch[k].content.blank
    /\ \E converted \in ConverterResults :
        /\ conversions' = Append(conversions, [name |-> missing_mains[mains_index],
                                               converted |-> converted])
        /\ IF HasError(converted) /\ ~IsMapping(converted)
           THEN \* converted['error'] raises TypeError inside the try:
                \* except Exception: failed_files.append(f"{missing} (retry error)")
                /\ failed_files' = RecordFailure(failed_files, missing_mains[mains_index],
                                                 "retry error")
                /\ UNCHANGED successful_files
           ELSE IF HasError(converted)
           THEN /\ failed_files' = RecordFailure(failed_files, missing_mains[mains_index],
                                                 "retry failed")
                /\ UNCHANGED successful_files
           ELSE /\ successful_files' = Append(successful_files, missing_mains[mains_index])
                /\ UNCHANGED failed_files
    /\ mains_index' = mains_index + 1
    /\ UNCHANGED <<batch, batch_index, large_files, missing_mains, batch_pc>>
    /\ UNCHANGED <<seg_vars, unit_vars, merge_vars, rec_vars>>

\* the pass over the main files is over: the summary is written
FinishBatch ==
    /\ batch_pc = "mains"
    /\ mains_index > Len(missing_mains)
    /\ batch_pc' = "done"
    /\ UNCHANGED <<batch, batch_index, successful_files, failed_files, large_files,
                   missing_mains, mains_index, conversions>>
    /\ UNCHANGED <<seg_vars, unit_vars, merge_vars, rec_vars>>

BatchNext ==
    \/ SkipOtherFile
    \/ ReadError
    \/ SkipEmptyFile
    \/ ConvertFile
    \/ FinishFiles
    \/ RetryNothing
    \/ RetryReadError
    \/ RetryMain
    \/ FinishBatch

(***************************************************************************)
(* Specifications                                                          *)
(*   Spec     one unit conversion (convert_bas_file / convert_cls_file)    *)
(*   SegSpec  chunk_large_file on every bounded input                      *)
(*   BatchSpec the files of one project, converted one after the other     *)
(***************************************************************************)
RecIdle ==
    /\ response_content = <<>>
    /\ cleaned = <<>>
    /\ recovered = <<>>
    /\ rec_input = NoInput
    /\ stages = <<>>
    /\ rec_pc = "idle"

Init == UnitStart /\ SegIdle /\ MergeIdle /\ RecIdle /\ BatchIdle
Next == UnitNext
Spec == Init /\ [][Next]_vars

SegInit == SegStart /\ UnitIdle /\ MergeIdle /\ RecIdle /\ BatchIdle
SegSpec == SegInit /\ [][SegNext]_vars

MergeInit == MergeStart /\ UnitIdle /\ SegIdle /\ RecIdle /\ BatchIdle
MergeSpec == MergeInit /\ [][MergeNext]_vars

RecInit == RecStart /\ UnitIdle /\ SegIdle /\ MergeIdle /\ BatchIdle
RecSpec == RecInit /\ [][RecNext]_vars

BatchInit == BatchStart /\ UnitIdle /\ SegIdle /\ MergeIdle /\ RecIdle
BatchSpec == BatchInit /\ [][BatchNext]_vars

(***************************************************************************)
(* Claims about call_azure_openai, convert_chunks_sequential and the unit  *)
(* converters (checked under Spec)                                         *)
(***************************************************************************)
Last(sq) == sq[Len(sq)]

\* The step just taken was a backend invocation of the running call.
Invoked == invocations' = invocations + 1
\* ... after which the call continues with a further attempt
Retried == attempt' = attempt + 1 /\ pc' = pc /\ returns' = returns
\* ... after which the call returned v
Returned(v) == Len(returns') = Len(returns) + 1 /\ Last(returns').value = v

UnmarkedEmptyBody(m) ==
    \E key \in DOMAIN m :
        EndsWithCs(key) /\ m[key].t = "code" /\ m[key].empty /\ ~m[key].marked

\* C1: whenever an accepted response has an output value (key ending in .cs) with
\* an empty-bodied callable, the driver retries or annotates the body with the
\* marker comment before returning: no call returns such a value unmarked.
C1_EmptyBodyRetriedOrMarked ==
    \A k \in 1..Len(returns) :
        ~HasError(returns[k].value) => ~UnmarkedEmptyBody(returns[k].value)

\* The unit conversion has invoked the backend, every invocation raised, and the
\* conversion is over.
AllRaisedAndDone == pc = "done" /\ raised_only /\ returns # <<>>

\* A call just returned (no call is running).
NoCallRunning == pc \in {"chunk_loop", "validate", "done"} /\ returns # <<>>

\* With an always-raising backend every call makes retries + 1 invocations and
\* returns the backend-failure error of its last attempt.
AllRaisedCalls ==
    (raised_only /\ NoCallRunning) =>
        /\ invocations = retries + 1
        /\ \A k \in 1..Len(returns) :
              returns[k].value = ErrorResult(ApiCallFailed(outcome.e))

\* C2 (as stated): with a backend that raises on every invocation, a call with
\* budget R invokes it exactly R+1 times and returns the backend-failure error,
\* and the enclosing unit conversion fails with that reason.
C2_AllRaisedUnitFailsWithBackendReason ==
    /\ AllRaisedCalls
    /\ AllRaisedAndDone => result = ErrorResult(ApiCallFailed(outcome.e))

\* C2 (amended): ... an un-chunked unit conversion fails with that reason; a
\* chunked one fails with the "All chunks failed" reason.
C2_AllRaisedUnitFails ==
    /\ AllRaisedCalls
    /\ AllRaisedAndDone =>
          result = IF n_chunks = 0 THEN ErrorResult(ApiCallFailed(outcome.e))
                   ELSE ErrorResult(AllChunksFailed)

\* C2 witness: an un-chunked unit failed after the default budget's four raising attempts
C2_Witness ==
    AllRaisedAndDone /\ n_chunks = 0 /\ retries = DefaultRetries /\ HasError(result)

\* The error the driver owes for a failed attempt
FailureKinds == {"raise", "empty", "garbage"}
ErrorOf(o) ==
    CASE o.kind = "raise" -> ErrorResult(ApiCallFailed(o.e))
      [] o.kind = "empty" -> ErrorResult(EmptyResponse)
      [] o.kind = "garbage" -> ErrorResult(InvalidJson(o.text))

\* C3: on each attempt, if the backend raises, returns empty text or the Recoverer
\* fails, a new attempt is made whenever attempts remain; with attempts exhausted
\* the call returns the error of that final attempt, whatever the earlier ones were.
C3_RetryThenLatestError ==
    [][(Invoked /\ outcome'.kind \in FailureKinds) =>
          IF attempt < retries THEN Retried ELSE Returned(ErrorOf(outcome'))]_vars

\* C3 witness: a call returned the error of a final attempt whose kind differs from
\* an earlier attempt's (the attempt before it was not a raise, the final one was).
C3_Witness ==
    /\ pc = "done"
    /\ retries = DefaultRetries
    /\ ~raised_only
    /\ outcome.kind = "raise"
    /\ Len(returns) = 1
    /\ returns[1].value = ErrorResult(ApiCallFailed(outcome.e))

\* C4: a recovered mapping with none of the expected keys is retried while attempts
\* remain and, with attempts exhausted, yields an error listing the keys found; no
\* mapping lacking every expected key is returned as a success.
C4_MissingKeysRetriedThenListed ==
    /\ [][(Invoked /\ outcome'.kind = "reply" /\ ~HasError(outcome'.m)
              /\ DOMAIN outcome'.m \cap ExpectedKeys = {}) =>
            IF attempt < retries THEN Retried
            ELSE Returned(ErrorResult(MissingKeys(DOMAIN outcome'.m)))]_vars
    /\ [](\A k \in 1..Len(returns) :
            ~HasError(returns[k].value) =>
                DOMAIN returns[k].value \cap ExpectedKeys # {})

\* C4 witness: after retries, a call returned the missing-keys error naming "Notes"
C4_Witness ==
    /\ retries = DefaultRetries
    /\ returns # <<>>
    /\ Last(returns).value = ErrorResult(MissingKeys({"Notes"}))

\* The orchestrator has returned its list.
OrchestratorDone ==
    n_chunks > 0 /\ pc \in {"combine_call", "validate", "fallback_call", "done"}

\* C5: the orchestrator's output list has exactly as many entries as there are
\* chunks, slot i holding what the driver returned for chunk i, success or error.
C5_OneSlotPerChunk ==
    /\ Len(results) <= n_chunks
    /\ OrchestratorDone => Len(results) = n_chunks
    /\ Len(results) <= Len(returns)
    /\ \A k \in 1..Len(results) :
          /\ returns[k].call = "chunk_call"
          /\ returns[k].chunk = k
          /\ results[k] = returns[k].value

\* C5 witness: three chunks, the middle one failed, the others succeeded
C5_Witness ==
    /\ OrchestratorDone
    /\ n_chunks = 3
    /\ ~HasError(results[1]) /\ HasError(results[2]) /\ ~HasError(results[3])

\* response.get("ContextSummary", "") of a successful result
SummaryOf(m) == IF "ContextSummary" \in DOMAIN m THEN m["ContextSummary"] ELSE EmptyStr

\* C6: chunks are processed in ordinal order, the request for chunk i+1 starting
\* only after chunk i's has returned, and a successful chunk i's ContextSummary is
\* the previous_context of chunk i+1's prompt.
C6_OrderedAndChained ==
    /\ Len(prompts) = IF pc = "chunk_call" THEN Len(results) + 1 ELSE Len(results)
    /\ \A k \in 1..Len(prompts) :
          prompts[k].chunk_number = k /\ prompts[k].vb6_code = k
    /\ \A k \in 1..(Len(prompts) - 1) :
          ~HasError(results[k]) => prompts[k + 1].previous_context = SummaryOf(results[k])

\* C6 witness: chunk 2's prompt carries chunk 1's summary, chunk 3's carries chunk 2's
C6_Witness ==
    /\ Len(prompts) = 3
    /\ ~HasError(results[1]) /\ ~HasError(results[2])
    /\ prompts[2].previous_context = Str("s1")
    /\ prompts[3].previous_context = Str("s2")

\* C7 (as stated): if chunk i returns an error, the previous_context of chunk
\* i+1's prompt is the empty string.
C7_FailedChunkGivesEmptyContext ==
    \A k \in 1..(Len(prompts) - 1) :
        HasError(results[k]) => prompts[k + 1].previous_context = EmptyStr

\* C7 (amended): a failed chunk leaves the chained context as it was: if chunk i
\* returns an error, chunk i+1's prompt gets the previous_context chunk i's prompt
\* got, and every later chunk is still requested.
C7_FailedChunkKeepsContext ==
    /\ \A k \in 1..(Len(prompts) - 1) :
          HasError(results[k]) =>
              prompts[k + 1].previous_context = prompts[k].previous_context
    /\ OrchestratorDone => Len(prompts) = n_chunks

\* C7 witness: chunk 1 succeeded with a summary, chunk 2 failed, chunk 3 was requested
C7_Witness ==
    /\ Len(prompts) = 3
    /\ ~HasError(results[1]) /\ HasError(results[2])
    /\ prompts[3].previous_context = Str("s1")

ChunkedDone == pc = "done" /\ n_chunks > 0
NoChunkSucceeded == \A k \in 1..Len(results) : HasError(results[k])
CallFailed(call) ==
    \E k \in 1..Len(returns) : returns[k].call = call /\ HasError(returns[k].value)

UnitUnderWay == pc \notin {"start", "idle"}
BelowThreshold == content.len < (IF unit_kind = "bas" THEN 15000 ELSE 12000)

\* C14: for every unit whose length is below the kind's threshold (15000 module,
\* 12000 class) the segmenter is bypassed: there are no chunks and no chunk
\* prompts, and the whole unit text goes out in the un-chunked prompt of its kind
\* (the same prompt again if the fallback is made); a blank unit sends nothing.
C14_BelowThresholdSinglePrompt ==
    (UnitUnderWay /\ BelowThreshold) =>
        /\ n_chunks = 0
        /\ prompts = <<>>
        /\ \A k \in 1..Len(returns) : returns[k].call \in {"single_call", "fallback_call"}
        /\ IF content.blank THEN unit_prompts = <<>>
           ELSE /\ Len(unit_prompts) \in {1, 2}
                /\ \A k \in 1..Len(unit_prompts) :
                      /\ unit_prompts[k].vb6_code = content
                      /\ unit_prompts[k].template =
                            (IF unit_kind = "bas" THEN "module_bas" ELSE "class_cls")

\* C14 witness: a module unit of 14999 characters converted by a single request
C14_Witness ==
    /\ pc = "done"
    /\ unit_kind = "bas"
    /\ content = [len |-> 14999, blank |-> FALSE]
    /\ Len(unit_prompts) = 1
    /\ ~HasError(result)

\* An output file of a recombined result lacks a non-empty body block: a text
\* without one or, for the locally merged class, one merged from no partial body.
LacksBody(m) ==
    \E key \in DOMAIN m :
        /\ EndsWithCs(key)
        /\ IF m[key].t = "class" THEN m[key].bodies = <<>> ELSE ~m[key].body
\* The whole-unit requests made so far (all requests but the combine request)
WholeUnitRequests == {k \in 1..Len(unit_prompts) : unit_prompts[k].template # "combine"}

\* C17: after either recombination strategy, if the recombined result has no error
\* and some output file lacks a non-empty body block (for local recombination: all
\* partial bodies are empty), exactly one whole-unit fallback request is issued,
\* with the un-chunked original text and the un-chunked prompt template.
C17_BodylessRecombinationFallsBack ==
    (pc = "done" /\ n_chunks > 0 /\ GoodParts(results) # <<>>
        /\ ~HasError(combined) /\ LacksBody(combined)) =>
            /\ Cardinality(WholeUnitRequests) = 1
            /\ \A k \in WholeUnitRequests : unit_prompts[k] = UnitPrompt(unit_kind, content)

\* C22: a unit whose content is empty or whitespace only fails at once with
\* the empty-content error: no backend invocation, no driver call, no prompt,
\* no chunking and no recombination happen for it.
C22_BlankUnitFailsAtOnce ==
    (pc = "done" /\ content.blank) =>
        /\ result = ErrorResult(EmptyContent)
        /\ returns = <<>>
        /\ invocations = 0
        /\ prompts = <<>> /\ unit_prompts = <<>>
        /\ n_chunks = 0 /\ results = <<>>
        /\ combined = EmptyMapping
\* C22 witness: a whitespace-only unit longer than the chunking threshold, failed
C22_Witness ==
    /\ pc = "done"
    /\ content.blank /\ content.len > Threshold(unit_kind)
    /\ result = ErrorResult(EmptyContent)

ModuleKeys == {"Constants.cs", "ModuleService.cs", "IModuleService.cs"}
\* A chunked module unit converted with every backend invocation accepted
ChunkedModuleAllAccepted == ChunkedDone /\ unit_kind = "bas" /\ all_accepted

\* C23 (as stated): for a chunked module unit, when every backend call (chunk
\* requests and the combine request) succeeds, the unit result has the three
\* keys Constants.cs, ModuleService.cs, IModuleService.cs and no error marker.
C23_AllCallsSucceedGivesThreeKeys ==
    ChunkedModuleAllAccepted => (ModuleKeys \subseteq DOMAIN result /\ ~HasError(result))

\* C23 (amended): for a chunked module unit, when every backend call succeeds,
\* the unit result has no error marker and is what the last request returned
\* (the combine request, or the whole-unit request made when a .cs value of the
\* combined mapping has no body); it has the keys of that reply, at least one
\* of them an expected key, and the combined mapping's three keys when that has
\* them and needs no fallback.
C23_AllCallsSucceedGivesLastReply ==
    ChunkedModuleAllAccepted =>
        /\ ~HasError(result)
        /\ DOMAIN result \cap ExpectedKeys # {}
        /\ result = Last(returns).value
        /\ Last(returns).call = (IF NeedsFallback(combined) THEN "fallback_call" ELSE "combine_call")
        /\ outcome.kind = "reply" /\ DOMAIN result = DOMAIN outcome.m
        /\ (ModuleKeys \subseteq DOMAIN combined /\ ~NeedsFallback(combined))
              => (result = combined /\ ModuleKeys \subseteq DOMAIN result)
\* C23 witness: three chunks and the combine request answered at once, the
\* combine reply carrying the three module keys
C23_Witness ==
    /\ ChunkedModuleAllAccepted
    /\ n_chunks = MaxChunks
    /\ Len(returns) = n_chunks + 1
    /\ DOMAIN result = ModuleKeys

\* The lengths of the summaries the backend returns, and the longest of them
SummaryLengths ==
    {Len(m["ContextSummary"].s) : m \in {r \in ChunkReplies : "ContextSummary" \in DOMAIN r}}
LongestSummary == Greatest(SummaryLengths)

\* C24: the context injected into a chunk prompt is cut to a fixed length B,
\* however long the summary the backend returned: some B below the longest
\* summary bounds the previous_context of every chunk prompt.
C24_InjectedContextTruncated ==
    \E B \in 0..(LongestSummary - 1) :
        \A k \in 1..Len(prompts) : Len(prompts[k].previous_context.s) <= B

\* The results without an "error" key, in the order of the list
WithoutErrors(rs) == SelectSeq(rs, LAMBDA r : ~HasError(r))

\* The class chunk texts of a list of results that have one, in the order of the list
ClassBodiesOf(rs) ==
    SelectSeq([k \in 1..Len(rs) |-> ClassChunkCode(rs[k])], LAMBDA code : ~code.blank)

\* The recombiner has been called: by a combine prompt sent, or by the local
\* merge whose result awaits validation
CombinePromptsSent == {k \in 1..Len(unit_prompts) : unit_prompts[k].template = "combine"}
LocallyMerged == unit_kind = "cls" /\ n_chunks > 0 /\ pc = "validate"

\* C27: the partial results handed to the recombiner are exactly the chunk
\* results without an "error" key, in the order of the chunks, and the local
\* recombination joins their bodies in that order.
C27_RecombinerGetsSuccessfulPartsInOrder ==
    /\ \A k \in CombinePromptsSent : unit_prompts[k].chunks = WithoutErrors(results)
    /\ LocallyMerged => combined["Class.cs"].bodies = ClassBodiesOf(WithoutErrors(results))
C27_Witness ==
    /\ LocallyMerged
    /\ Len(results) = 3
    /\ HasError(results[2])
    /\ combined["Class.cs"].bodies = <<NoBody, GoodCode>>

\* The driver calls made for recombination that have returned
RecombineReturns == {k \in 1..Len(returns) : returns[k].call = "combine_call"}

\* The chunk loop is over and some chunk succeeded: the recombiner has run
Recombined ==
    /\ n_chunks > 0
    /\ pc \in {"validate", "fallback_call", "done"}
    /\ GoodParts(results) # <<>>

\* C28: the local recombination of a class unit issues no backend request at
\* all; the recombination of a module unit issues exactly one driver request,
\* which has the driver's retry budget; the kind of the unit alone selects the
\* strategy.
C28_LocalNoRequestModelOneRequest ==
    /\ unit_kind = "cls" =>
        /\ pc # "combine_call"
        /\ CombinePromptsSent = {}
        /\ RecombineReturns = {}
        /\ n_chunks > 0 => \A k \in 1..Len(returns) : returns[k].call = "chunk_call"
    /\ (unit_kind = "bas" /\ Recombined) =>
        /\ Cardinality(CombinePromptsSent) = 1
        /\ Cardinality(RecombineReturns) = 1
    /\ pc = "combine_call" =>
        /\ Cardinality(CombinePromptsSent) = 1
        /\ RecombineReturns = {}
        /\ invocations <= retries + 1
C28_Witness ==
    /\ unit_kind = "bas"
    /\ Recombined
    /\ pc = "validate"
    /\ retries = DefaultRetries
    /\ invocations = retries + 1
    /\ ~HasError(combined)

\* C33: call_azure_openai never raises and makes at most retries + 1 backend
\* invocations; what it returns is a mapping that either has an "error" key or has
\* none and holds at least one expected key.
C33_DriverReturnsErrorOrKeyedMapping ==
    /\ invocations <= retries + 1
    /\ \A k \in 1..Len(returns) :
           LET v == returns[k].value IN
               IsMapping(v) /\ (HasError(v) \/ HasValidKey(v))

\* The part of C33 that holds of every value returned, mapping or not: at most
\* retries + 1 invocations, and `"error" in value` or an expected key in it.
DriverReturnsErrorOrKeyed ==
    /\ invocations <= retries + 1
    /\ \A k \in 1..Len(returns) :
           HasError(returns[k].value) \/ HasValidKey(returns[k].value)

\* A call has returned the list holding "error" as it came from the recoverer.
ListReturned ==
    \E k \in 1..Len(returns) : returns[k].value = ListValue({"error"})

\* ... and it is the result of the unit conversion.
UnitResultIsList == pc = "done" /\ result = ListValue({"error"})

\* The calls of call_azure_openai a unit conversion has started: each one sends
\* the prompt recorded for it.
CallsStarted == Len(prompts) + Len(unit_prompts)

\* The claimed most backend invocations of a unit conversion: the chunk calls, the
\* combine request (module units only) and one fallback, each with R + 1 attempts.
InvocationBound ==
    IF n_chunks = 0 THEN 2 * (retries + 1)
    ELSE IF unit_kind = "bas" THEN (n_chunks + 2) * (retries + 1)
    ELSE (n_chunks + 1) * (retries + 1)

\* C34: a unit conversion makes a bounded number of backend invocations: with n
\* chunks and retry budget R at most (n + 2) * (R + 1) for a chunked module unit,
\* (n + 1) * (R + 1) for a chunked class unit and 2 * (R + 1) for an un-chunked
\* one. Every call makes at most R + 1 invocations, so the calls started, each
\* counted with R + 1 invocations, stay within the bound.
C34_InvocationsBounded ==
    pc # "idle" =>
        /\ invocations <= retries + 1
        /\ CallsStarted * (retries + 1) <= InvocationBound

\* A chunked module unit has started every call it may, and the last one took all
\* its attempts.
C34_Witness ==
    /\ pc = "done"
    /\ unit_kind = "bas"
    /\ n_chunks >= 2
    /\ retries > 0
    /\ CallsStarted = n_chunks + 2
    /\ invocations = retries + 1

\* An un-chunked unit has used its whole bound.
UnchunkedBoundReached ==
    pc = "done" /\ n_chunks = 0 /\ retries > 0 /\ CallsStarted = 2
        /\ invocations = retries + 1

\* A chunked class unit never goes beyond its chunk calls.
ChunkedClassCalls ==
    (unit_kind = "cls" /\ n_chunks > 0) => CallsStarted <= n_chunks

\* Every step of a unit conversion in progress uses up a measure that cannot go
\* below zero: the conversion ends.
UnitMeasure ==
    LET phase == CASE pc = "start" -> 4 [] pc \in {"chunk_loop", "chunk_call"} -> 3
                   [] pc \in {"combine_call", "single_call"} -> 2
                   [] pc = "validate" -> 1 [] pc = "fallback_call" -> 1
                   [] OTHER -> 0
        calls == CASE pc = "chunk_loop" -> 2 * (n_chunks - chunk_index) + 1
                   [] pc = "chunk_call" -> 2 * (n_chunks - chunk_index)
                   [] pc = "validate" -> 1
                   [] OTHER -> 0
        attempts == IF pc \in {"chunk_call", "combine_call", "single_call", "fallback_call"}
                    THEN retries + 1 - invocations ELSE 0
    IN  <<phase, calls, attempts>>

LexLess(a, b) ==
    \/ a[1] < b[1]
    \/ a[1] = b[1] /\ a[2] < b[2]
    \/ a[1] = b[1] /\ a[2] = b[2] /\ a[3] < b[3]

UnitMeasureDecreases ==
    [][pc # "idle" => /\ LexLess(UnitMeasure', UnitMeasure)
                      /\ \A k \in 1..3 : UnitMeasure'[k] >= 0]_vars

\* The fallback calls that have returned, by their place in the history.
FallbackReturns == {k \in 1..Len(returns) : returns[k].call = "fallback_call"}

\* C35: a unit conversion issues at most one fallback request, and what that call
\* returns is the unit's result as it is, success or error: it is not validated
\* for a body block again and no further request follows it.
C35_OneFallbackReturnedVerbatim ==
    /\ Cardinality(FallbackReturns) <= 1
    /\ pc = "fallback_call" => FallbackReturns = {}
    /\ FallbackReturns # {} =>
           /\ FallbackReturns = {Len(returns)}
           /\ pc = "done"
           /\ result = returns[Len(returns)].value

\* A fallback returned an accepted value that again has an output without a body
\* block, and it is the unit's result.
C35_Witness ==
    /\ pc = "done"
    /\ FallbackReturns # {}
    /\ NeedsFallback(result)

\* A fallback returned an error, and it is the unit's result.
FallbackErrorReturned ==
    pc = "done" /\ FallbackReturns # {} /\ HasError(result)

\* The chunks before chunk i that succeeded.
SucceededBefore(i) == {j \in 1..(i - 1) : ~HasError(results[j])}

\* C36: the previous_context of chunk i's prompt is the ContextSummary of the most
\* recent successful chunk before i (the empty string if that result has none), and
\* the empty string when no earlier chunk succeeded; the first chunk's is empty.
C36_ContextIsLastSuccessfulSummary ==
    \A i \in 1..Len(prompts) :
        prompts[i].previous_context =
            IF SucceededBefore(i) = {} THEN EmptyStr
            ELSE SummaryOf(results[Greatest(SucceededBefore(i))])

\* Chunk 1 succeeded with a summary, chunk 2 succeeded without one, and chunk 3's
\* prompt has the empty context.
C36_Witness ==
    /\ Len(prompts) = 3
    /\ ~HasError(results[1]) /\ SummaryOf(results[1]) = Str("s1")
    /\ ~HasError(results[2]) /\ "ContextSummary" \notin DOMAIN results[2]
    /\ prompts[3].previous_context = EmptyStr

\* Chunks 1 and 2 failed and chunk 3's prompt has the empty context.
NoSuccessEmptyContext ==
    /\ Len(prompts) = 3
    /\ HasError(results[1]) /\ HasError(results[2])
    /\ prompts[3].previous_context = EmptyStr

(***************************************************************************)
(* Claims about chunk_large_file (checked under SegSpec)                   *)
(***************************************************************************)
\* The lines of a chunk text: the text split at the "\n" separators of the join.
ChunkLines(cs) == Flatten([k \in 1..Len(cs) |-> SplitNL(cs[k])])

\* C9: for every input, both kinds and every budget, the line sequences of the
\* returned chunks, concatenated in ordinal order, are the input's line sequence:
\* no line is dropped, duplicated or reordered.  (Stated for every prefix of the
\* scan as well: the closed chunks followed by the open one are the lines read.)
C9_LinesPreserved ==
    /\ seg_pc = "scan" => ChunkLines(chunks) \o current_chunk = SubSeq(lines, 1, pos - 1)
    /\ seg_pc = "done" => ChunkLines(chunks) = lines

\* C9 witness: a finished segmentation into several chunks, one of them ending in
\* a blank line, another holding several lines.
C9_Witness ==
    /\ seg_pc = "done"
    /\ Len(chunks) >= 2
    /\ Len(lines) >= 4
    /\ \E k \in 1..Len(chunks) : chunks[k] # <<>> /\ chunks[k][Len(chunks[k])] = NL
    /\ \E k \in 1..Len(chunks) : Len(SplitNL(chunks[k])) >= 2

\* C10: no chunk boundary is created while a body-open flag (in_method or
\* in_struct) is true, except the final flush at end of input.
C10_NoBoundaryInsideBody ==
    boundary.kind \in {"cut", "flush"} => ~boundary.open

\* The loop has just read a line: the line, and the locals before it was read.
LineRead == seg_pc = "scan" /\ pos' = pos + 1
\* A body-close line of the kind being segmented
CloseKeywords == IF file_type = "cls" THEN cls_method_end_keywords \cup struct_end_keywords
                 ELSE bas_method_end_keywords
IsCloseLine(line) == ContainsAny(Strip(line), CloseKeywords)

\* C11: a body-close line is always appended to the chunk that is current when it
\* is read; reading it never places a chunk boundary before it.
C11_CloseLineNeverCutOff ==
    [][(LineRead /\ IsCloseLine(lines[pos])) =>
          /\ boundary'.kind # "cut"
          /\ \/ current_chunk' = Append(current_chunk, lines[pos])
             \/ /\ current_chunk' = <<>>
                /\ chunks' = Append(chunks, JoinNL(Append(current_chunk, lines[pos])))]_vars

\* C12: after a body-close line has been appended, if the running chunk size
\* exceeds 80% of max_chunk_size the current chunk is flushed and a new empty
\* chunk of running size 0 starts; otherwise no flush happens at that line.
C12_FlushAfterCloseAboveEighty ==
    [][(LineRead /\ IsCloseLine(lines[pos]) /\ boundary'.kind # "cut") =>
          LET appended == Append(current_chunk, lines[pos])
              running == current_size + Len(lines[pos])
          IN  IF 10 * running > 8 * max_chunk_size
              THEN /\ chunks' = Append(chunks, JoinNL(appended))
                   /\ current_chunk' = <<>>
                   /\ current_size' = 0
              ELSE /\ chunks' = chunks
                   /\ current_chunk' = appended
                   /\ current_size' = running]_vars

\* Structural bodies, read off the lines alone: a body runs from a body-open line
\* (a callable or record start of either kind, not a declare line) to the next
\* body-close line, or to the end of the lines when it is not closed there.
BodyCloseKeywords == cls_method_end_keywords \cup struct_end_keywords
BodyOpenKeywords ==
    cls_method_start_keywords \cup struct_start_keywords \cup bas_method_start_keywords
IsBodyClose(line) == ContainsAny(line, BodyCloseKeywords)
IsBodyOpen(line) ==
    /\ ContainsAny(line, BodyOpenKeywords)
    /\ ~IsBodyClose(line)
    /\ ~ContainsAny(line, declare_keywords)
BodyEnd(ls, i) ==
    IF \E j \in (i + 1)..Len(ls) : IsBodyClose(ls[j])
    THEN CHOOSE j \in (i + 1)..Len(ls) :
             IsBodyClose(ls[j]) /\ \A h \in (i + 1)..(j - 1) : ~IsBodyClose(ls[h])
    ELSE Len(ls)
HasOversizedBody(ls, max) ==
    \E i \in 1..Len(ls) : IsBodyOpen(ls[i]) /\ SumLen(SubSeq(ls, i, BodyEnd(ls, i))) > max

\* Well-formed input: no line is longer than the budget, every close line closes
\* the body opened by the nearest open line before it, bodies are not nested and
\* every body is closed.
OpenBefore(ls, j) ==
    \E i \in 1..(j - 1) :
        IsBodyOpen(ls[i]) /\ \A h \in (i + 1)..(j - 1) : ~IsBodyOpen(ls[h]) /\ ~IsBodyClose(ls[h])
WellFormedInput ==
    /\ \A j \in 1..Len(lines) : Len(lines[j]) <= max_chunk_size
    /\ \A j \in 1..Len(lines) : IsBodyClose(lines[j]) => OpenBefore(lines, j)
    /\ \A j \in 1..Len(lines) : IsBodyOpen(lines[j]) => ~OpenBefore(lines, j)
    /\ ~OpenBefore(lines, Len(lines) + 1)
    /\ lines # <<>> => ~IsBodyOpen(lines[Len(lines)])

\* C13: every chunk produced has summed line length no larger than
\* max_chunk_size, except a chunk in which a single structural body (one callable
\* or one record block) by itself exceeds max_chunk_size.  (Stated for well-formed
\* inputs, where the bodies of a chunk are not in question.)
C13_ChunkWithinBudgetUnlessOversizedBody ==
    WellFormedInput =>
        \A k \in 1..Len(chunks) :
            LET ls == SplitNL(chunks[k]) IN
            SumLen(ls) <= max_chunk_size \/ HasOversizedBody(ls, max_chunk_size)

\* The callable marker lines of the kind being segmented, read off the line
\* alone: a close line holds a callable-close keyword; an open line holds a
\* callable-open keyword and is neither a close line nor a declare line
CallableCloseKeywords ==
    IF file_type = "cls" THEN cls_method_end_keywords ELSE bas_method_end_keywords
CallableOpenKeywords ==
    IF file_type = "cls" THEN cls_method_start_keywords ELSE bas_method_start_keywords
IsCallableClose(line) == ContainsAny(Strip(line), CallableCloseKeywords)
IsCallableOpen(line) ==
    /\ ContainsAny(Strip(line), CallableOpenKeywords)
    /\ ~IsCallableClose(line)
    /\ ~ContainsAny(Strip(line), declare_keywords)
\* The last callable marker line among the first n lines; 0 if there is none
LastCallableMarker(n) ==
    Greatest({j \in 1..n : IsCallableOpen(lines[j]) \/ IsCallableClose(lines[j])})

\* C30: for both kinds, at any point of the scan in_method is true exactly when
\* the most recent callable marker line read was an open line: it is true after
\* an open line and false after a close line ('End Sub' / 'End Function').
C30_InMethodTracksMarkers ==
    seg_pc \in {"scan", "done"} =>
        in_method = (/\ LastCallableMarker(pos - 1) # 0
                     /\ IsCallableOpen(lines[LastCallableMarker(pos - 1)]))

\* The same for the class kind alone
InMethodTracksMarkersInCls == file_type = "cls" => C30_InMethodTracksMarkers

\* A declare-marker line
IsDeclareLine(line) == ContainsAny(Strip(line), declare_keywords)

\* C31: a declare-marker line ('Declare Function' / 'Declare Sub') forces a
\* boundary before itself only when appending it would exceed max_chunk_size
\* and no body is open, and reading it leaves both body flags unchanged, even
\* though its text also holds a callable keyword.
C31_DeclareLineKeepsFlags ==
    [][(LineRead /\ IsDeclareLine(lines[pos])) =>
          /\ in_method' = in_method
          /\ in_struct' = in_struct
          /\ boundary'.kind = "cut" =>
                /\ current_size + Len(lines[pos]) > max_chunk_size
                /\ ~in_method
                /\ ~in_struct]_vars

\* The same for the module kind alone
DeclareLineKeepsFlagsInBas ==
    [][(file_type = "bas" /\ LineRead /\ IsDeclareLine(lines[pos])) =>
          /\ in_method' = in_method
          /\ in_struct' = in_struct
          /\ boundary'.kind = "cut" =>
                (current_size + Len(lines[pos]) > max_chunk_size /\ ~in_method)]_vars

\* C32: after every line read the running size is the sum of the raw lengths
\* of the lines of the current chunk, separators not counted; when a new chunk
\* starts it is the length of that chunk's first line (a cut) or 0 (a flush).
C32_SizeIsSumOfLineLengths ==
    seg_pc \in {"scan", "done"} =>
        /\ current_size = SumLen(current_chunk)
        /\ boundary.kind = "cut" =>
            (current_chunk = <<lines[pos - 1]>> /\ current_size = Len(lines[pos - 1]))
        /\ boundary.kind = "flush" => (current_chunk = <<>> /\ current_size = 0)
C32_Witness ==
    /\ seg_pc = "scan"
    /\ Len(chunks) >= 1
    /\ Len(current_chunk) = 2
    /\ current_size = Len(current_chunk[1]) + Len(current_chunk[2])
    /\ current_size > 0

\* A line the class kind's scan takes as a body-close line: it reaches the
\* 'End Type' branch or the 'End Sub' / 'End Function' / 'End Property' branch.
ClsCloseLine(line) ==
    /\ ~ContainsAny(line, struct_start_keywords)
    /\ \/ ContainsAny(line, struct_end_keywords)
       \/ /\ ~ContainsAny(line, declare_keywords)
          /\ ~ContainsAny(line, cls_method_start_keywords)
          /\ ContainsAny(line, cls_method_end_keywords)

\* The line just read joined a chunk that already had lines.
AppendedToChunk == current_chunk # <<>> /\ current_chunk' = Append(current_chunk, lines[pos])

\* The chunk the line just read went into has this line alone: it is the chunk
\* being built, or the chunk a flush closed right after the line.
LineAloneInChunk ==
    \/ current_chunk' = <<lines[pos]>>
    \/ boundary'.kind = "flush" /\ chunks'[Len(chunks')] = JoinNL(<<lines[pos]>>)

\* C37 (as stated): in a class unit, when a line that is no body-close line is
\* appended to a non-empty chunk and the running size then exceeds max_chunk_size,
\* a body flag was true before the line; with no body open the budget is exceeded
\* only by a chunk of a single line.
C37_OverBudgetOnlyInBodyOrAlone ==
    [][(LineRead /\ file_type = "cls") =>
          /\ (~ClsCloseLine(lines[pos]) /\ AppendedToChunk
                  /\ current_size' > max_chunk_size) => (in_method \/ in_struct)
          /\ (~in_method /\ ~in_struct
                  /\ current_size + Len(lines[pos]) > max_chunk_size) => LineAloneInChunk]_vars

\* C37 (amended): the same, the second part for lines that are no body-close
\* lines: with no body open such a line exceeds the budget only as a chunk of that
\* single line.
C37_OverBudgetOnlyInBodyOrAloneUnlessClose ==
    [][(LineRead /\ file_type = "cls" /\ ~ClsCloseLine(lines[pos])) =>
          /\ (AppendedToChunk /\ current_size' > max_chunk_size) => (in_method \/ in_struct)
          /\ (~in_method /\ ~in_struct
                  /\ current_size + Len(lines[pos]) > max_chunk_size) =>
                 current_chunk' = <<lines[pos]>>]_vars

\* A class chunk of several lines is over the budget, its last line is no close
\* line, and a body is open.
C37_Witness ==
    /\ seg_pc = "scan"
    /\ file_type = "cls"
    /\ Len(current_chunk) >= 2
    /\ current_size > max_chunk_size
    /\ current_size - Len(current_chunk[Len(current_chunk)]) <= max_chunk_size
    /\ ~ClsCloseLine(current_chunk[Len(current_chunk)])
    /\ in_method \/ in_struct

\* With no body open, a line longer than the budget is alone in its chunk.
LongLineAlone ==
    /\ seg_pc = "scan"
    /\ file_type = "cls"
    /\ ~in_method /\ ~in_struct
    /\ Len(chunks) >= 1
    /\ Len(current_chunk) = 1
    /\ current_size > max_chunk_size

\* The lines of the chunk a step closes: with a flush the line just read is its
\* last line, with a cut or at the end of the input it is the chunk as it stood.
ClosedLines ==
    IF boundary'.kind = "flush" THEN Append(current_chunk, lines[pos]) ELSE current_chunk

\* C38: chunk_large_file never emits a chunk with zero lines: every step that
\* closes a chunk (cut, flush or the end of the input) closes one chunk, holding at
\* least one line; an input with at least one line gives at least one chunk, and an
\* input with no lines gives the empty list.
C38_NoChunkWithoutLines ==
    /\ [][/\ Len(chunks') \in {Len(chunks), Len(chunks) + 1}
          /\ Len(chunks') = Len(chunks) + 1 =>
                /\ ClosedLines # <<>>
                /\ chunks' = Append(chunks, JoinNL(ClosedLines))]_vars
    /\ [](seg_pc = "done" => (chunks = <<>> <=> lines = <<>>))

\* An input with a body-close line gave three chunks, the last one closed at the
\* end of the input.
C38_Witness ==
    /\ seg_pc = "done"
    /\ Len(chunks) = 3
    /\ boundary.kind = "end"
    /\ \E k \in 1..Len(lines) : ClsCloseLine(lines[k])

\* The scan ended right after a flush: no chunk is added for the empty rest.
EndedAfterFlush ==
    seg_pc = "done" /\ boundary.kind = "none" /\ current_chunk = <<>> /\ Len(chunks) >= 1

\* A chunk of one blank line is the empty text.
BlankLineChunk == seg_pc = "done" /\ \E k \in 1..Len(chunks) : chunks[k] = <<>>

(***************************************************************************)
(* Claims about local recombination (checked under MergeSpec)              *)
(***************************************************************************)
\* The partial bodies as they are joined, before any duplicate is removed
JoinedBodies == JoinWith(<<"\n", "\n">>, chunk_bodies)

\* C15: a type declaration 'public <class|struct|enum> <Name> { ... }' that occurs
\* verbatim two or more times across the partial bodies occurs exactly once in
\* the merged output.
C15_VerbatimDuplicateCollapsedToOne ==
    merge_pc = "done" =>
        \A d \in Declarations :
            Count(JoinedBodies, d) >= 2 => Count(merged_body, d) = 1

\* The opening of a declaration of a given kind and name
\* "public struct F{", "public enum E{"
DeclarationHeads == {<<"p", "u", "b", "l", "i", "c", " ", "s", "t", "r", "u", "c", "t", " ", "F", "{">>, <<"p", "u", "b", "l", "i", "c", " ", "e", "n", "u", "m", " ", "E", "{">>}

\* C16: the output of local recombination never contains two type declarations
\* (texts of the declaration pattern) of the same name and kind, whether or not
\* their bodies differ.
C16_NoTwoDeclarationsOfSameNameAndKind ==
    merge_pc = "done" =>
        LET declared == FindTypes(merged_body) IN
        \A h \in DeclarationHeads :
            Cardinality({k \in 1..Len(declared) : StartsWithAt(declared[k], 1, h)}) <= 1

\* Python: text.endswith(word)
EndsWith(text, word) ==
    Len(word) <= Len(text) /\ SubSeq(text, Len(text) - Len(word) + 1, Len(text)) = word

\* "    public class "
W_class_line == <<" ", " ", " ", " ">> \o W_public \o <<" ">> \o W_class \o <<" ">>
\* "namespace "
W_namespace_line == W_namespace \o <<" ">>

\* The lines of a text that open a namespace of the given name, and those that
\* open a class at the depth of the synthesized one: the members of the body
\* are indented deeper, so no line of theirs is one of these
NamespaceLines(code_lines, name) ==
    {k \in 1..Len(code_lines) : code_lines[k] = W_namespace_line \o name}
ClassLines(code_lines) ==
    {k \in 1..Len(code_lines) : StartsWithAt(code_lines[k], 1, W_class_line)}
SomeChunkHasDisposable ==
    \E k \in 1..Len(class_chunks) : Count(class_chunks[k], W_IDisposable) > 0

\* C26: local recombination puts ': IDisposable' on the synthesized class if and
\* only if the text of at least one partial chunk mentions IDisposable, and it
\* writes the namespace and the class exactly once, around the merged body.
C26_MarkerIffReferencedAndOneWrapper ==
    merge_pc = "done" =>
        LET code_lines == SplitLines(full_code)
            ns == NamespaceLines(code_lines, namespace)
            cs == ClassLines(code_lines)
        IN  /\ Cardinality(ns) = 1
            /\ Cardinality(cs) = 1
            /\ \A n \in ns, c \in cs :
                /\ c = n + 2
                /\ code_lines[n + 1] = <<"{">>
                /\ code_lines[c] = W_class_line \o class_name \o <<" ">>
                                    \o (IF SomeChunkHasDisposable THEN W_inheritance ELSE <<>>)
                /\ EndsWith(full_code, code_lines[c] \o W_open_body
                                           \o IndentCode(merged_body, IndentWidth) \o W_close)
C26_Witness ==
    /\ merge_pc = "done"
    /\ class_chunks = <<H_Whole, H_DisposableClass>>
    /\ Count(full_code, W_inheritance) = 1
    /\ Count(full_code, W_class) = 1

(***************************************************************************)
(* Claims about extract_json_from_response (checked under RecSpec)         *)
(***************************************************************************)
Recovered == rec_pc = "done"

\* C18: for every valid mapping X, the Recoverer applied to the serialization
\* of X returns X.
C18_RoundTrip ==
    (Recovered /\ rec_input.form = "plain") => recovered = MappingOf(rec_input.pairs)
C18_Witness ==
    /\ Recovered
    /\ rec_input = [pairs |-> X_Newline, form |-> "plain"]
    /\ recovered = MappingOf(X_Newline)

\* C19: a valid object followed by trailing prose is recovered as that object
\* (not an error), also when its string values hold escaped quotes or braces
\* and when the prose holds braces.
C19_TrailingProseRecovered ==
    (Recovered /\ rec_input.form \in ProseForms) => recovered = MappingOf(rec_input.pairs)

\* C20: an object wrapped in json code fences is recovered to the same mapping
\* as the object without the fences.
C20_FencedAsUnfenced ==
    (Recovered /\ rec_input.form \in FencedForms) =>
        /\ recovered = Recover(Serialize(rec_input.pairs))
        /\ W_error \notin DOMAIN recovered
C20_Witness ==
    /\ Recovered
    /\ rec_input = [pairs |-> X_Fence, form |-> "fenced"]
    /\ recovered = MappingOf(X_Fence)

StageOrder == <<"empty_check", "direct_parse", "brace_scan", "greedy_match">>
\* Whether a parsing stage, run on the cleaned text, yields a mapping
StageSucceeds(stage) ==
    CASE stage = "direct_parse" -> json_loads(cleaned).ok
      [] stage = "brace_scan" ->
            LET balanced == FirstBalancedSpan(FixEscapes(cleaned)) IN
            balanced.found /\ json_loads(balanced.span).ok
      [] stage = "greedy_match" ->
            LET greedy == GreedyBraceSpan(cleaned) IN
            greedy.found /\ json_loads(greedy.span).ok
      [] OTHER -> FALSE
AllStagesFailed ==
    \/ response_content = <<>>
    \/ stages = StageOrder /\ ~StageSucceeds("greedy_match")
IsPreviewError(mapping) ==
    /\ DOMAIN mapping = {W_error}
    /\ \E n \in 0..PreviewLength :
          /\ n <= Len(cleaned)
          /\ mapping[W_error] = W_invalid_json \o SubSeq(cleaned, 1, n) \o W_ellipsis

\* C21: the recovery stages run in the order empty check, direct parse, brace
\* scan, greedy match, and stop at the first success; when every stage fails
\* (empty input included) the result has "error" as its only key, and for
\* non-empty input the error carries at most 200 characters of the cleaned text.
C21_StagesInOrderStopAtFirstSuccess ==
    Recovered =>
        /\ stages = SubSeq(StageOrder, 1, Len(stages))
        /\ stages # <<>>
        /\ \A k \in 2..(Len(stages) - 1) : ~StageSucceeds(stages[k])
        /\ response_content = <<>> <=> stages = <<"empty_check">>
        /\ Len(stages) < Len(StageOrder) /\ response_content # <<>>
              => StageSucceeds(stages[Len(stages)])
        /\ AllStagesFailed => DOMAIN recovered = {W_error}
        /\ AllStagesFailed /\ response_content # <<>> => IsPreviewError(recovered)
        /\ ~AllStagesFailed => W_error \notin DOMAIN recovered
C21_Witness ==
    /\ Recovered
    /\ rec_input.form = "long_not_json"
    /\ stages = StageOrder
    /\ Len(cleaned) > PreviewLength
    /\ IsPreviewError(recovered)

(***************************************************************************)
(* Claims about convert_vb6_project (checked under BatchSpec)              *)
(***************************************************************************)
\* A file the loop hands to a converter: a .bas or .cls file with readable,
\* non-blank text
Convertible(file) ==
    file.ext \in {".bas", ".cls"} /\ file.content.readable /\ ~file.content.blank

\* The names of the convertible files among the first n of the batch, in order
ConvertibleNames(n) ==
    LET firsts == SelectSeq(SubSeq(batch, 1, n), Convertible)
    IN  [k \in 1..Len(firsts) |-> NameOf(firsts[k])]

\* The failed conversions, and the entries of failed_files that record one
FailedConversions == {k \in 1..Len(conversions) : HasError(conversions[k].converted)}
ConversionFailures(name) ==
    {k \in 1..Len(failed_files) :
        /\ failed_files[k].name = name
        /\ failed_files[k].note \in {"conversion failed", "retry failed", "retry error"}}

\* C29: a unit whose conversion returns an error never aborts the batch: the
\* failure is recorded for that unit, and every remaining unit of the batch is
\* still converted.
C29_FailedUnitDoesNotAbortBatch ==
    /\ batch_pc # "failed"
    /\ \A k \in FailedConversions :
        Cardinality(ConversionFailures(conversions[k].name))
            = Cardinality({j \in FailedConversions : conversions[j].name = conversions[k].name})
    /\ batch_pc = "files" =>
        [k \in 1..Len(conversions) |-> conversions[k].name] = ConvertibleNames(batch_index - 1)
    /\ batch_pc \in {"mains", "done"} =>
        SubSeq([k \in 1..Len(conversions) |-> conversions[k].name], 1,
               Len(ConvertibleNames(Len(batch)))) = ConvertibleNames(Len(batch))
C29_Witness ==
    /\ batch_pc = "done"
    /\ Len(batch) = 3
    /\ Len(conversions) >= 3
    /\ HasError(conversions[1].converted)
    /\ ~HasError(conversions[2].converted)
    /\ HasError(conversions[3].converted)

\* The same for batches whose converter calls all returned mappings
FailedMappingDoesNotAbortBatch ==
    (\A k \in 1..Len(conversions) : IsMapping(conversions[k].converted)) =>
        C29_FailedUnitDoesNotAbortBatch

\* A converter call returned the list holding "error", and the batch ended with
\* HTTP 500 without a record of the file.
BatchAborted ==
    /\ batch_pc = "failed"
    /\ Len(conversions) >= 2
    /\ batch_index < Len(batch)

\* The .bas/.cls files of the listing, by their place, and the records a name has
\* in the two lists.
SourcePlaces == {k \in 1..Len(batch) : batch[k].ext \in {".bas", ".cls"}}
RecordsOf(name) ==
    Cardinality({k \in 1..Len(successful_files) : successful_files[k] = name})
        + Cardinality({k \in 1..Len(failed_files) : failed_files[k].name = name})
total_files_processed == Len(successful_files) + Len(failed_files)

\* C39: after the loop over the files and the main-file pass, every source file
\* handled is recorded once, in one of successful_files and failed_files, so that
\* total_files_processed is the number of distinct .bas/.cls files handled.
C39_EveryFileRecordedOnce ==
    batch_pc = "done" =>
        /\ \A k \in SourcePlaces : RecordsOf(NameOf(batch[k])) = 1
        /\ total_files_processed = Cardinality(SourcePlaces)

\* What holds of the accounting: every source file has a record, a file that is
\* none of the expected main files has one record, and no other name is recorded.
EveryFileRecordedAtLeastOnce ==
    batch_pc = "done" =>
        /\ \A k \in SourcePlaces :
              /\ RecordsOf(NameOf(batch[k])) >= 1
              /\ ~IsIn(NameOf(batch[k]), ExpectedMains) => RecordsOf(NameOf(batch[k])) = 1
        /\ \A k \in 1..Len(successful_files) :
              \E j \in SourcePlaces : NameOf(batch[j]) = successful_files[k]
        /\ \A k \in 1..Len(failed_files) :
              \E j \in SourcePlaces : NameOf(batch[j]) = failed_files[k].name

\* A main file failed in the loop, was converted again by the main-file pass, and
\* is in both lists.
MainInBothLists ==
    /\ batch_pc = "done"
    /\ \E k \in SourcePlaces :
          /\ IsIn(NameOf(batch[k]), successful_files)
          /\ \E j \in 1..Len(failed_files) : failed_files[j].name = NameOf(batch[k])

====
